---- MODULE Spec2Model ----
(***************************************************************************)
(* Model of the Brother PT-700 driver of go.afab.re/etiquette              *)
(* (src/pt700/pt700.go, second snapshot, and src/pt700/status.go).         *)
(*                                                                         *)
(* One behaviour is one call of PT700.Print.  Every p.write and every      *)
(* p.readStatus of the job is one step; the raster loop of a page is one   *)
(* step.  `log' records, in order, every write handed to the channel and   *)
(* every status read, so ordering properties are state predicates of log.  *)
(***************************************************************************)
EXTENDS Integers, Sequences, FiniteSets

\* pc, imgs, i, status, log, ret: a PT700.Print job (specification Spec).
\* call, loc: the arguments and the locals of one function of the driver
\* studied on its own (specifications FnSpec, WriteSpec, ReadSpec).  During
\* a job call does not change and loc.phase is the Phase field of the status
\* that the wait after the last print command accepted (-1: none yet),
\* loc.err whether the status accepted by the last wait of a page had an
\* error bit set.
VARIABLES pc, imgs, i, status, log, ret, call, loc

vars == <<pc, imgs, i, status, log, ret, call, loc>>

(***************************************************************************)
(* Bounds of the model.                                                    *)
(***************************************************************************)
MaxPages == 3
MaxExtraRows == 0
MaxRowWidth == 3
MaxBuf == 4
MaxEintr == 1
MaxTimeout == 2
MaxPending == 2
MaxScript == 3

(***************************************************************************)
(* status.go: enumerations.                                                *)
(***************************************************************************)
StatusReplyToRequest == 0
StatusPrintingCompleted == 1
StatusErrorOccurred == 2
StatusExitIFMode == 3
StatusTurnedOff == 4
StatusNotification == 5
StatusPhaseChange == 6

WidthNoMedia == 0
Width3_5 == 4
Width6 == 6
Width9 == 9
Width12 == 12
Width18 == 18
Width24 == 24

TypeLaminated == 1

PhaseEditing == 0
PhasePrinting == 1

Err1NoMedia == 1
Err2CoverOpen == 16

\* pagePos: middle = 0, first = 1 << iota (iota = 1), last = 1 << 2.
middle == 0
first == 2
last == 4

totalPins == 128

\* Bit test pos&flag != 0 for a single-bit flag.
HasBit(pos, flag) == (pos \div flag) % 2 = 1

(***************************************************************************)
(* Media width table.                                                      *)
(***************************************************************************)
\* MediaWidth.pixels (called Dx by checkImgs): -1 stands for the error.
pixels(w) ==
    CASE w = Width3_5 -> 24
      [] w = Width6 -> 32
      [] w = Width9 -> 50
      [] w = Width12 -> 70
      [] w = Width18 -> 112
      [] w = Width24 -> 128
      [] OTHER -> -1

\* Minimum printable length in raster lines (MinBounds, MinDy of checkImgs).
MinDy == 172

\* MediaWidth.MinBounds: the rectangle (0,0)-(172,width); when pixels
\* fails, the zero rectangle is returned with a nil error.
MinBounds(w) ==
    IF pixels(w) < 0
    THEN [err |-> FALSE, MaxX |-> 0, MaxY |-> 0]
    ELSE [err |-> FALSE, MaxX |-> MinDy, MaxY |-> pixels(w)]

\* Mutant of unusedPins: the unused pins are not split between both sides.
unusedPinsOneSide(w) == IF pixels(w) < 0 THEN -1 ELSE 128 - pixels(w)

\* MediaWidth.unusedPins: -1 stands for the error.
unusedPins(w) == IF pixels(w) < 0 THEN -1 ELSE (128 - pixels(w)) \div 2

(***************************************************************************)
(* Status codec.                                                           *)
(***************************************************************************)
NoStatus == [Err1 |-> 0, Err2 |-> 0, MediaWidth |-> 0, MediaType |-> 0,
             Type |-> 0, Phase |-> 0]

\* A 32 byte reply of the device; Go offsets 8, 9, 10, 11, 18, 19.
MkResp(e1, e2, w, t, k, ph) ==
    [j \in 1..32 |->
        CASE j = 9 -> e1
          [] j = 10 -> e2
          [] j = 11 -> w
          [] j = 12 -> t
          [] j = 19 -> k
          [] j = 20 -> ph
          [] OTHER -> 0]

\* A reply whose reserved bytes all hold nz.
MkRespNoise(e1, e2, w, t, k, ph, nz) ==
    [j \in 1..32 |->
        CASE j = 9 -> e1
          [] j = 10 -> e2
          [] j = 11 -> w
          [] j = 12 -> t
          [] j = 19 -> k
          [] j = 20 -> ph
          [] OTHER -> nz]

\* Mutant of Decode: the status type is taken one byte too early.
DecodeTypeShifted(resp) ==
    [Err1 |-> resp[9], Err2 |-> resp[10], MediaWidth |-> resp[11],
     MediaType |-> resp[12], Type |-> resp[18], Phase |-> resp[20]]

\* readStatus, lines 665-672.
Decode(resp) ==
    [Err1 |-> resp[9], Err2 |-> resp[10], MediaWidth |-> resp[11],
     MediaType |-> resp[12], Type |-> resp[19], Phase |-> resp[20]]

\* Mutant of TypeAccepted: an error-occurred reply passes every wait.
TypeAcceptedOrError(s, expectedType) ==
    s.Type = expectedType \/ s.Type = StatusErrorOccurred

\* readStatus, lines 674-677: the reply is returned only when its type is
\* the expected one.
TypeAccepted(s, expectedType) == s.Type = expectedType

\* Mutant of StatusErr: err2 is looked at first.
StatusErrErr2First(s) ==
    IF s.Err2 # 0 THEN "err2"
    ELSE IF s.Err1 # 0 THEN "err1"
    ELSE "nil"

\* Mutant of StatusErr: only err1 is looked at.
StatusErrOnlyErr1(s) == IF s.Err1 # 0 THEN "err1" ELSE "nil"

\* Status.Err: "nil", or which error byte the error describes.
StatusErr(s) ==
    IF s.Err1 # 0 THEN "err1"
    ELSE IF s.Err2 # 0 THEN "err2"
    ELSE "nil"

(***************************************************************************)
(* Images (monochrome.Image): bounds and a pixel pattern.                  *)
(***************************************************************************)
ImgDx(img) == img.MaxX - img.MinX
ImgDy(img) == img.MaxY - img.MinY

\* The pixels of an image: pattern 0 is white, 1 a checkerboard, 2 black;
\* pattern 16 + m gives the pixels of a small image one by one, pixel
\* number (x - Min.X) + Dx * (y - Min.Y) being bit number of m.
PixelBit(m, n) ==
    CASE n = 0 -> m % 2
      [] n = 1 -> (m \div 2) % 2
      [] n = 2 -> (m \div 4) % 2
      [] n = 3 -> (m \div 8) % 2
      [] n = 4 -> (m \div 16) % 2
      [] n = 5 -> (m \div 32) % 2
      [] n = 6 -> (m \div 64) % 2
      [] n = 7 -> (m \div 128) % 2
      [] n = 8 -> (m \div 256) % 2
      [] OTHER -> (m \div 512) % 2

PatternAt(img, x, y) ==
    CASE img.pat = 0 -> FALSE
      [] img.pat = 1 -> (x + y) % 2 = 0
      [] img.pat >= 16 ->
           PixelBit(img.pat - 16,
                    (x - img.MinX) + ImgDx(img) * (y - img.MinY)) = 1
      [] OTHER -> TRUE

InBounds(img, x, y) ==
    /\ x >= img.MinX /\ x < img.MaxX
    /\ y >= img.MinY /\ y < img.MaxY

\* Image.BlackAt: ColorIndexAt is 0 outside of the bounds. Pattern 3 is
\* an image made by pad: white, with the pixels of img.src drawn at the
\* bounds of img.src.
BlackAt(img, x, y) ==
    /\ InBounds(img, x, y)
    /\ IF img.pat = 3
       THEN InBounds(img.src, x, y) /\ PatternAt(img.src, x, y)
       ELSE PatternAt(img, x, y)

\* pad: the error is reported by padErr.
padErr(b, src) == ImgDx(src) > b.Dx

\* Mutant of pad: the odd pixel of padding goes to the bottom right.
padBottomRight(b, src) ==
    LET xPadding == b.Dx - ImgDx(src)
        yPadding == IF ImgDy(src) >= b.MinDy THEN 0
                    ELSE b.MinDy - ImgDy(src)
    IN [MinX |-> src.MinX - (xPadding \div 2),
        MinY |-> src.MinY - (yPadding \div 2),
        MaxX |-> src.MaxX + ((xPadding + 1) \div 2),
        MaxY |-> src.MaxY + ((yPadding + 1) \div 2),
        pat |-> 3,
        src |-> src]

pad(b, src) ==
    LET xPadding == b.Dx - ImgDx(src)
        yPadding == IF ImgDy(src) >= b.MinDy THEN 0
                    ELSE b.MinDy - ImgDy(src)
    IN [MinX |-> src.MinX - ((xPadding + 1) \div 2),
        MinY |-> src.MinY - ((yPadding + 1) \div 2),
        MaxX |-> src.MaxX + (xPadding \div 2),
        MaxY |-> src.MaxY + (yPadding \div 2),
        pat |-> 3,
        src |-> src]

\* Mutant of checkFrom: the height of a page is not checked.
RECURSIVE checkFromNoHeight(_, _, _)
checkFromNoHeight(dx, pages, k) ==
    IF k > Len(pages) THEN "nil"
    ELSE IF (pages[k].MaxX - pages[k].MinX) # dx THEN "image width"
    ELSE checkFromNoHeight(dx, pages, k + 1)

\* Mutant of checkFrom: only the first page is checked.
checkFromFirstOnly(dx, pages, k) ==
    IF k > Len(pages) THEN "nil"
    ELSE IF (pages[k].MaxX - pages[k].MinX) # dx THEN "image width"
    ELSE IF (pages[k].MaxY - pages[k].MinY) < MinDy THEN "image height"
    ELSE "nil"

\* checkImgs: "nil" or the first error found, pages in order.
RECURSIVE checkFrom(_, _, _)
checkFrom(dx, pages, k) ==
    IF k > Len(pages) THEN "nil"
    ELSE IF ImgDx(pages[k]) # dx THEN "image width"
    ELSE IF ImgDy(pages[k]) < MinDy THEN "image height"
    ELSE checkFrom(dx, pages, k + 1)

checkImgs(width, pages) ==
    IF pixels(width) < 0 THEN "unknown tape width"
    ELSE checkFrom(pixels(width), pages, 1)

(***************************************************************************)
(* Wire format.                                                            *)
(***************************************************************************)
Zeros(n) == [j \in 1..n |-> 0]

\* Mutant of LE32: most significant byte first.
LE32BigEndian(v) ==
    <<(v \div 16777216) % 256, (v \div 65536) % 256, (v \div 256) % 256,
      v % 256>>

LE32(v) == <<v % 256, (v \div 256) % 256, (v \div 65536) % 256,
             (v \div 16777216) % 256>>

\* Mutant of Invalidate: one byte short.
InvalidateShort == Zeros(99)

Invalidate == Zeros(100)
Initialize == <<27, 64>>
StatusRequest == <<27, 105, 83>>
RasterMode == <<27, 105, 97, 1>>
ModeSettings == <<27, 105, 77, 64>>
\* Mutant of AdvancedMode: the settings byte is cleared.
AdvancedModeZero == <<27, 105, 75, 0>>

AdvancedMode == <<27, 105, 75, 8>>
Margin == <<27, 105, 100, 0, 0>>
Compression == <<77, 0>>

\* Position of page k (0-based) in a job of n pages, Print lines 418-424.
\* Mutant of Pos: a page that is first is not also last.
PosFirstWins(k, n) ==
    IF k = 0 THEN first ELSE IF k = n - 1 THEN last ELSE middle

Pos(k, n) ==
    (IF k = 0 THEN first ELSE middle) + (IF k = n - 1 THEN last ELSE middle)

\* Mutant of ContinuationFlag: the flag is inverted.
ContinuationFlagInverted(pos) == IF HasBit(pos, first) THEN 1 ELSE 0

\* printPage lines 500-505.
ContinuationFlag(pos) == IF HasBit(pos, first) THEN 0 ELSE 1

\* printPage lines 488-507.
PrintInfo(width, pos, img) ==
    <<27, 105, 122, 132, 0, width, 0>> \o LE32(ImgDy(img))
        \o <<ContinuationFlag(pos), 0>>

\* Mutant of PrintCmd: every page but the first is fed and cut.
PrintCmdNotFirst(pos) == IF ~HasBit(pos, first) THEN 26 ELSE 12

\* printPage lines 556-560.
PrintCmd(pos) == IF HasBit(pos, last) THEN 26 ELSE 12

\* rasterLine: the 16 payload bytes of row y, pins offset by off.
Pow2(e) == CASE e = 0 -> 1 [] e = 1 -> 2 [] e = 2 -> 4 [] e = 3 -> 8
             [] e = 4 -> 16 [] e = 5 -> 32 [] e = 6 -> 64 [] OTHER -> 128

PinBlack(off, img, y, pin) ==
    /\ pin >= off
    /\ pin < off + ImgDx(img)
    /\ BlackAt(img, img.MinX + (pin - off), y)

\* Mutant of LineByte: least significant bit first.
LineByteLSBFirst(off, img, y, byt) ==
    LET B(bit) == IF PinBlack(off, img, y, 8 * byt + bit)
                  THEN Pow2(bit) ELSE 0
    IN B(0) + B(1) + B(2) + B(3) + B(4) + B(5) + B(6) + B(7)

LineByte(off, img, y, byt) ==
    LET B(bit) == IF PinBlack(off, img, y, 8 * byt + bit)
                  THEN Pow2(7 - bit) ELSE 0
    IN B(0) + B(1) + B(2) + B(3) + B(4) + B(5) + B(6) + B(7)

rasterLine(width, img, y) ==
    <<71, 16, 0>> \o [b \in 1..(totalPins \div 8) |->
                        LineByte(unusedPins(width), img, y, b - 1)]

\* rasterLine, line 609: line[byt] is out of range for a black pixel whose
\* pin is 128 or more.
rasterLinePanics(width, img, y) ==
    \E x \in img.MinX..(img.MaxX - 1) :
        /\ BlackAt(img, x, y)
        /\ unusedPins(width) + (x - img.MinX) >= totalPins

\* printRaster: the rows visited, in order (y := Max.Y; y > Min.Y; y--).
RasterRows(img) == [k \in 1..ImgDy(img) |-> img.MaxY - (k - 1)]

\* printRaster: the writes of one page's raster data.
printRaster(width, img) ==
    [k \in 1..ImgDy(img) |-> rasterLine(width, img, RasterRows(img)[k])]

(***************************************************************************)
(* Inputs: the pages handed to Print and the replies of the device.        *)
(***************************************************************************)
ImageWidths == {24, 32}
Patterns == {1}

Images ==
    [MinX : {0}, MinY : {0}, MaxX : ImageWidths,
     MaxY : (MinDy - 1)..(MinDy + MaxExtraRows), pat : Patterns]

Jobs == UNION {[1..n -> Images] : n \in 0..MaxPages}

\* Jobs of one page made by pad from a black image shorter than MinDy, for
\* the bounds of the 3.5mm tape.
ShortImages ==
    [MinX : {0}, MinY : {0}, MaxX : {24}, MaxY : {MinDy - 20, MinDy - 3},
     pat : {2}]

Bounds(w) == [Dx |-> pixels(w), MinDy |-> MinDy]

PaddedJobs ==
    {<<pad(Bounds(Width3_5), src)>> :
        src \in {img \in ShortImages : ~padErr(Bounds(Width3_5), img)}}

ReplyWidths == {WidthNoMedia, Width3_5, 5, Width6}
ReplyKinds == {StatusReplyToRequest, StatusPrintingCompleted,
               StatusErrorOccurred, StatusPhaseChange}

Replies ==
    {MkResp(e1, e2, w, TypeLaminated, k, PhasePrinting) :
        e1 \in {0, Err1NoMedia}, e2 \in {0, Err2CoverOpen},
        w \in ReplyWidths, k \in ReplyKinds}

\* Phase-change notifications of the other phases: editing, and a value the
\* driver has no name for.
PhaseReplies ==
    {MkResp(0, 0, Width12, TypeLaminated, StatusPhaseChange, ph) :
        ph \in {PhaseEditing, 2}}

(***************************************************************************)
(* The log of channel operations.                                          *)
(***************************************************************************)
\* A p.write call: the bytes handed to the channel, and whether it returned
\* nil.  A failed write has handed over a strict prefix of its buffer.
W(b, ok) == [op |-> "w", b |-> b, want |-> -1, got |-> -1, ok |-> ok]

\* A p.readStatus call: the expected type, the decoded type (-1 when p.read
\* failed) and whether the status was returned to the caller.
R(want, got, ok) == [op |-> "r", b |-> <<>>, want |-> want, got |-> got,
                     ok |-> ok]

\* Lengths of the prefix a failing p.write may have handed over.
PartialLens(b) == {0, Len(b) - 1}

Init ==
    /\ pc = "idle"
    /\ imgs = <<>>
    /\ i = 0
    /\ status = NoStatus
    /\ log = <<>>
    /\ ret = "running"
    /\ call = <<>>
    /\ loc = [phase |-> -1, err |-> FALSE]

\* Mutant of DoWrite: the error of a failed write is dropped and the job
\* goes on.
DoWriteIgnoresError(b, next, err) ==
    \/ /\ log' = Append(log, W(b, TRUE))
       /\ pc' = next
       /\ ret' = ret
    \/ \E k \in PartialLens(b) :
          /\ log' = Append(log, W(SubSeq(b, 1, k), FALSE))
          /\ pc' = next
          /\ ret' = ret

\* PT700.write: all of b on success, else an error after a strict prefix.
DoWrite(b, next, err) ==
    \/ /\ log' = Append(log, W(b, TRUE))
       /\ pc' = next
       /\ ret' = ret
    \/ \E k \in PartialLens(b) :
          /\ log' = Append(log, W(SubSeq(b, 1, k), FALSE))
          /\ pc' = "done"
          /\ ret' = err

\* Mutant of AfterWait: the waits of a page check the error bytes as
\* Print does for the first status.
AfterWaitChecksErr(s, next) ==
    IF StatusErr(s) # "nil" THEN [pc |-> "done", ret |-> "device error"]
    ELSE [pc |-> next, ret |-> ret]

\* printPage lines 474-479 and 565-580: the status returned by readStatus
\* is dropped (_, err := p.readStatus(...)); the page goes on.
AfterWait(s, next) == [pc |-> next, ret |-> ret]

\* Whether a status has an error bit set.
HasErr(s) == s.Err1 # 0 \/ s.Err2 # 0

\* PT700.readStatus in a wait of printPage: p.read fails, or a reply is
\* decoded and accepted only when its type is the expected one.
DoReadStatus(expectedType, next) ==
    \/ /\ log' = Append(log, R(expectedType, -1, FALSE))
       /\ pc' = "done"
       /\ ret' = "status read"
       /\ loc' = loc
    \/ \E resp \in Replies :
          LET s == Decode(resp) IN
          IF TypeAccepted(s, expectedType)
          THEN /\ log' = Append(log, R(expectedType, s.Type, TRUE))
               /\ pc' = AfterWait(s, next).pc
               /\ ret' = AfterWait(s, next).ret
               /\ loc' = [loc EXCEPT !.err = HasErr(s)]
          ELSE /\ log' = Append(log, R(expectedType, s.Type, FALSE))
               /\ pc' = "done"
               /\ ret' = "status type"
               /\ loc' = loc

\* The page being printed and its position.
Page == imgs[i + 1]
CurPos == Pos(i, Len(imgs))

\* Mutant of PageEntry: no page waits before it is sent.
PageEntryNoWait(pos) == "rasterMode"

\* printPage lines 474-479: where a page starts.
PageEntry(pos) == IF ~HasBit(pos, first) THEN "preWait" ELSE "rasterMode"

\* Mutant of AfterPrinting: the "feeding" status is never awaited.
AfterPrintingNoFeeding(pos) == "completed"

\* printPage lines 570-578: the wait that follows the "printing" status.
AfterPrinting(pos) == IF HasBit(pos, last) THEN "feeding" ELSE "completed"

\* Print lines 393, 436: the call and reset's invalidate.
PrintCall ==
    /\ pc = "idle"
    /\ \E job \in Jobs \cup PaddedJobs : imgs' = job
    /\ DoWrite(Invalidate, "drain", "invalidate")
    /\ UNCHANGED <<i, status, call, loc>>

\* reset line 441: readUntilEOF discards what is pending, or fails.
Drain ==
    /\ pc = "drain"
    /\ \/ /\ pc' = "initialize"
          /\ ret' = ret
       \/ /\ pc' = "done"
          /\ ret' = "drain"
    /\ UNCHANGED <<imgs, i, status, log, call, loc>>

\* Print lines 397-400.
InitializeCmd ==
    /\ pc = "initialize"
    /\ DoWrite(Initialize, "statusWrite", "initialize")
    /\ UNCHANGED <<imgs, i, status, call, loc>>

\* status line 652.
StatusWrite ==
    /\ pc = "statusWrite"
    /\ DoWrite(StatusRequest, "statusRead", "status write")
    /\ UNCHANGED <<imgs, i, status, call, loc>>

\* Mutant of AfterStatus: a job without pages is rejected.
AfterStatusRejectsEmpty(s) ==
    IF StatusErr(s) # "nil" THEN [pc |-> "done", ret |-> "device error"]
    ELSE IF Len(imgs) = 0 THEN [pc |-> "done", ret |-> "no pages"]
    ELSE IF checkImgs(s.MediaWidth, imgs) # "nil"
         THEN [pc |-> "done", ret |-> checkImgs(s.MediaWidth, imgs)]
    ELSE [pc |-> PageEntry(Pos(0, Len(imgs))), ret |-> ret]

\* Print lines 404-417 after a status of the expected type was read: the
\* device error check, checkImgs and the entry of the page loop.
AfterStatus(s) ==
    IF StatusErr(s) # "nil" THEN [pc |-> "done", ret |-> "device error"]
    ELSE IF checkImgs(s.MediaWidth, imgs) # "nil"
         THEN [pc |-> "done", ret |-> checkImgs(s.MediaWidth, imgs)]
    ELSE IF Len(imgs) = 0 THEN [pc |-> "done", ret |-> "nil"]
    ELSE [pc |-> PageEntry(Pos(0, Len(imgs))), ret |-> ret]

\* status line 656 and Print lines 404-417.
StatusRead ==
    /\ pc = "statusRead"
    /\ \/ /\ log' = Append(log, R(StatusReplyToRequest, -1, FALSE))
          /\ pc' = "done"
          /\ ret' = "status read"
          /\ status' = status
       \/ \E resp \in Replies :
             LET s == Decode(resp) IN
             IF TypeAccepted(s, StatusReplyToRequest)
             THEN /\ log' = Append(log, R(StatusReplyToRequest, s.Type, TRUE))
                  /\ status' = s
                  /\ pc' = AfterStatus(s).pc
                  /\ ret' = AfterStatus(s).ret
             ELSE /\ log' = Append(log, R(StatusReplyToRequest, s.Type, FALSE))
                  /\ pc' = "done"
                  /\ ret' = "status type"
                  /\ status' = status
    /\ UNCHANGED <<imgs, i, call, loc>>

\* printPage lines 474-479.
PreWait ==
    /\ pc = "preWait"
    /\ DoReadStatus(StatusPhaseChange, "rasterMode")
    /\ UNCHANGED <<imgs, i, status, call>>

\* printPage lines 481-485.
RasterModeCmd ==
    /\ pc = "rasterMode"
    /\ DoWrite(RasterMode, "info", "enabling raster mode")
    /\ UNCHANGED <<imgs, i, status, call, loc>>

\* printPage lines 487-510.
PrintInfoCmd ==
    /\ pc = "info"
    /\ DoWrite(PrintInfo(status.MediaWidth, CurPos, Page), "mode",
               "print information")
    /\ UNCHANGED <<imgs, i, status, call, loc>>

\* printPage lines 512-519.
ModeSettingsCmd ==
    /\ pc = "mode"
    /\ DoWrite(ModeSettings, "advanced", "mode settings")
    /\ UNCHANGED <<imgs, i, status, call, loc>>

\* printPage lines 521-530.
AdvancedModeCmd ==
    /\ pc = "advanced"
    /\ DoWrite(AdvancedMode, "margin", "advanced mode settings")
    /\ UNCHANGED <<imgs, i, status, call, loc>>

\* printPage lines 532-539.
MarginCmd ==
    /\ pc = "margin"
    /\ DoWrite(Margin, "compression", "margins")
    /\ UNCHANGED <<imgs, i, status, call, loc>>

\* Mutant of CompressionCmd: the print command follows at once.
CompressionCmdThenPrint ==
    /\ pc = "compression"
    /\ DoWrite(Compression, "print", "compression")
    /\ UNCHANGED <<imgs, i, status, call, loc>>

\* printPage lines 541-548.
CompressionCmd ==
    /\ pc = "compression"
    /\ DoWrite(Compression, "raster", "compression")
    /\ UNCHANGED <<imgs, i, status, call, loc>>

\* printPage lines 550-553, printRaster: one write per row; the write of
\* row number j may fail (the first or the last row of the page here).
\* rasterLine returns the error of unusedPins before it writes anything.
RasterData ==
    /\ pc = "raster"
    /\ LET lines == printRaster(status.MediaWidth, Page)
           done(n) == [k \in 1..n |-> W(lines[k], TRUE)]
       IN IF unusedPins(status.MediaWidth) < 0
          THEN /\ log' = log
               /\ pc' = "done"
               /\ ret' = "raster"
          ELSE \/ /\ log' = log \o done(Len(lines))
                  /\ pc' = "print"
                  /\ ret' = ret
               \/ \E j \in {1, Len(lines)} :
                     \E k \in PartialLens(lines[j]) :
                        /\ log' = Append(log \o done(j - 1),
                                         W(SubSeq(lines[j], 1, k), FALSE))
                        /\ pc' = "done"
                        /\ ret' = "raster"
    /\ UNCHANGED <<imgs, i, status, call, loc>>

\* printPage lines 555-563.
PrintCommand ==
    /\ pc = "print"
    /\ DoWrite(<<PrintCmd(CurPos)>>, "printing", "print")
    /\ UNCHANGED <<imgs, i, status, call, loc>>

\* printPage lines 565-568.
WaitPrinting ==
    /\ pc = "printing"
    /\ \/ /\ log' = Append(log, R(StatusPhaseChange, -1, FALSE))
          /\ pc' = "done"
          /\ ret' = "status read"
          /\ loc' = loc
       \/ \E resp \in Replies \cup PhaseReplies :
             LET s == Decode(resp) IN
             IF ~TypeAccepted(s, StatusPhaseChange)
             THEN /\ log' = Append(log, R(StatusPhaseChange, s.Type, FALSE))
                  /\ pc' = "done"
                  /\ ret' = "status type"
                  /\ loc' = loc
             ELSE /\ log' = Append(log, R(StatusPhaseChange, s.Type, TRUE))
                  /\ pc' = AfterWait(s, AfterPrinting(CurPos)).pc
                  /\ ret' = AfterWait(s, AfterPrinting(CurPos)).ret
                  /\ loc' = [phase |-> s.Phase, err |-> HasErr(s)]
    /\ UNCHANGED <<imgs, i, status, call>>

\* Mutant of WaitFeeding: the last page returns once the "feeding" status
\* is read, without a wait for printing-completed.
WaitFeedingReturns ==
    /\ pc = "feeding"
    /\ \/ /\ log' = Append(log, R(StatusPhaseChange, -1, FALSE))
          /\ pc' = "done"
          /\ ret' = "status read"
       \/ \E resp \in Replies :
             IF Decode(resp).Type = StatusPhaseChange
             THEN /\ log' = Append(log, R(StatusPhaseChange,
                                          Decode(resp).Type, TRUE))
                  /\ pc' = "done"
                  /\ ret' = "nil"
             ELSE /\ log' = Append(log, R(StatusPhaseChange,
                                          Decode(resp).Type, FALSE))
                  /\ pc' = "done"
                  /\ ret' = "status type"
    /\ UNCHANGED <<imgs, i, status, call, loc>>

\* printPage lines 570-575.
WaitFeeding ==
    /\ pc = "feeding"
    /\ DoReadStatus(StatusPhaseChange, "completed")
    /\ UNCHANGED <<imgs, i, status, call>>

\* printPage lines 577-579 and the loop of Print, lines 417-431: the page
\* ends with a printing-completed status; then the next page or return nil.
WaitCompleted ==
    /\ pc = "completed"
    /\ \/ /\ log' = Append(log, R(StatusPrintingCompleted, -1, FALSE))
          /\ pc' = "done"
          /\ ret' = "status read"
          /\ i' = i
          /\ loc' = loc
       \/ \E resp \in Replies :
             LET s == Decode(resp) IN
             IF ~TypeAccepted(s, StatusPrintingCompleted)
             THEN /\ log' = Append(log, R(StatusPrintingCompleted, s.Type,
                                          FALSE))
                  /\ pc' = "done"
                  /\ ret' = "status type"
                  /\ i' = i
                  /\ loc' = loc
             ELSE /\ log' = Append(log, R(StatusPrintingCompleted, s.Type,
                                          TRUE))
                  /\ loc' = [loc EXCEPT !.err = HasErr(s)]
                  /\ IF AfterWait(s, "next").pc = "done"
                     THEN /\ i' = i
                          /\ pc' = "done"
                          /\ ret' = AfterWait(s, "next").ret
                     ELSE IF i + 1 < Len(imgs)
                     THEN /\ i' = i + 1
                          /\ pc' = PageEntry(Pos(i + 1, Len(imgs)))
                          /\ ret' = ret
                     ELSE /\ i' = i
                          /\ pc' = "done"
                          /\ ret' = "nil"
    /\ UNCHANGED <<imgs, status, call>>

Next ==
    \/ PrintCall
    \/ Drain
    \/ InitializeCmd
    \/ StatusWrite
    \/ StatusRead
    \/ PreWait
    \/ RasterModeCmd
    \/ PrintInfoCmd
    \/ ModeSettingsCmd
    \/ AdvancedModeCmd
    \/ MarginCmd
    \/ CompressionCmd
    \/ RasterData
    \/ PrintCommand
    \/ WaitPrinting
    \/ WaitFeeding
    \/ WaitCompleted

Spec == Init /\ [][Next]_vars

TypeOK ==
    /\ pc \in {"idle", "drain", "initialize", "statusWrite", "statusRead",
               "preWait", "rasterMode", "info", "mode", "advanced", "margin",
               "compression", "raster", "print", "printing", "feeding",
               "completed", "done"}
    /\ i \in 0..MaxPages
    /\ (pc = "done") = (ret # "running")

(***************************************************************************)
(* Reading the log.                                                        *)
(***************************************************************************)
IsStrictPrefix(a, b) == Len(a) < Len(b) /\ a = SubSeq(b, 1, Len(a))

\* The write e handed over cmd, or failed part way through it.
IsWriteOf(e, cmd) ==
    e.op = "w" /\ (IF e.ok THEN e.b = cmd ELSE IsStrictPrefix(e.b, cmd))

\* Position in log of the n-th write at or after position p, 0 if none.
RECURSIVE WritePos(_, _)
WritePos(n, p) ==
    IF p > Len(log) THEN 0
    ELSE IF log[p].op = "w"
         THEN (IF n = 1 THEN p ELSE WritePos(n - 1, p + 1))
         ELSE WritePos(n, p + 1)

\* The first three writes are the job's preamble; the fourth is the first
\* page command.
FirstPageCmd == WritePos(4, 1)

IsAccepted(e, kind) == e.op = "r" /\ e.ok /\ e.want = kind /\ e.got = kind

\* The initial status has been read and returned to Print.
StatusSeen == \E q \in 1..Len(log) : IsAccepted(log[q], StatusReplyToRequest)

IsW(e) == e.op = "w"
IsPrintInfo(e) ==
    e.op = "w" /\ e.ok /\ Len(e.b) = 13 /\ SubSeq(e.b, 1, 3) = <<27, 105, 122>>
IsPrintCmd(e) == e.op = "w" /\ e.ok /\ Len(e.b) = 1
IsPageStart(e) ==
    e.op = "w" /\ Len(e.b) >= 3 /\ SubSeq(e.b, 1, 3) = <<27, 105, 97>>
IsCompletedWait(e) == e.op = "r" /\ e.want = StatusPrintingCompleted

PageStarts == {p \in 1..Len(log) : IsPageStart(log[p])}
PrintCmds == {p \in 1..Len(log) : IsPrintCmd(log[p])}

\* Number of entries of log before position p that satisfy Test.
CountBefore(Test(_), p) == Len(SelectSeq(SubSeq(log, 1, p - 1), Test))

Returned == pc = "done"
Failed == pc = "done" /\ ret # "nil"
Succeeded == pc = "done" /\ ret = "nil"

(***************************************************************************)
(* C1..C10: the job's sequencing.                                          *)
(***************************************************************************)

\* C1: the writes before any page command are, in order, the 100 zero bytes
\* of invalidate, initialize 1B 40 and the status request 1B 69 53, and the
\* first page command is written only after a status of type
\* reply-to-request was read following that request.
C1_Preamble ==
    LET p1 == WritePos(1, 1)
        p2 == WritePos(2, 1)
        p3 == WritePos(3, 1)
        p4 == FirstPageCmd
    IN /\ p1 # 0 => IsWriteOf(log[p1], [j \in 1..100 |-> 0])
       /\ p2 # 0 => log[p1].ok /\ IsWriteOf(log[p2], <<27, 64>>)
       /\ p3 # 0 => log[p2].ok /\ IsWriteOf(log[p3], <<27, 105, 83>>)
       /\ p4 # 0 =>
            /\ log[p3].ok
            /\ IsWriteOf(log[p4], <<27, 105, 97, 1>>)
            /\ \E q \in (p3 + 1)..(p4 - 1) :
                  IsAccepted(log[q], StatusReplyToRequest)

C1_Witness == FirstPageCmd # 0 /\ log[FirstPageCmd].ok

\* A page that checkImgs must refuse for the media of the initial status.
BadWidth(img) == ImgDx(img) # pixels(status.MediaWidth)
BadHeight(img) == ImgDy(img) < MinDy
BadPage(img) == BadWidth(img) \/ BadHeight(img)

\* C2: when any page, at any index, is too short or not as wide as the
\* loaded media, the job fails and no page command is ever written.
C2_FailFast ==
    (StatusSeen /\ \E k \in 1..Len(imgs) : BadPage(imgs[k]))
        => Failed /\ FirstPageCmd = 0

C2_Witness ==
    /\ ret = "image height"
    /\ Len(imgs) = 3
    /\ ~BadPage(imgs[1]) /\ ~BadPage(imgs[2]) /\ BadHeight(imgs[3])

\* The writes of the job, in order.
Writes == SelectSeq(log, IsW)

\* No byte at all was handed to the channel.
NothingWritten == \A k \in 1..Len(Writes) : Writes[k].b = <<>>

\* C3 as stated: a page of the wrong width makes the job fail with zero
\* bytes written to the channel.
C3_Original ==
    (Returned /\ StatusSeen /\ \E k \in 1..Len(imgs) : BadWidth(imgs[k]))
        => Failed /\ NothingWritten

\* C3 amended: a page of the wrong width makes the job fail with nothing
\* written but invalidate, initialize and the status request (105 bytes).
C3_Amended ==
    (Returned /\ StatusSeen /\ \E k \in 1..Len(imgs) : BadWidth(imgs[k]))
        => /\ Failed
           /\ Writes = <<W([j \in 1..100 |-> 0], TRUE), W(<<27, 64>>, TRUE),
                        W(<<27, 105, 83>>, TRUE)>>

C3_Witness ==
    /\ ret = "image width"
    /\ Len(imgs) >= 2
    /\ ~BadWidth(imgs[1])
    /\ Len(Writes) = 3
    /\ Len(Writes[1].b) + Len(Writes[2].b) + Len(Writes[3].b) = 105

C5_TypeMatch ==
    \A q \in 1..Len(log) :
        log[q].op = "r" =>
            /\ log[q].ok => log[q].got = log[q].want
            /\ (log[q].got # -1 /\ log[q].got # log[q].want) =>
                  /\ ~log[q].ok
                  /\ q = Len(log)
                  /\ Returned /\ ret = "status type"

C5_Witness ==
    /\ Len(log) > 0
    /\ log[Len(log)].op = "r"
    /\ log[Len(log)].want = StatusPhaseChange
    /\ log[Len(log)].got = StatusErrorOccurred
    /\ ret = "status type"

\* C6: the continuation flag of print-information is 0 for the first page
\* of a job and 1 for every other page.
C6_ContinuationFlag ==
    LET infos == SelectSeq(log, IsPrintInfo)
    IN \A j \in 1..Len(infos) : infos[j].b[12] = (IF j = 1 THEN 0 ELSE 1)

C6_Witness == Len(SelectSeq(log, IsPrintInfo)) = 3

\* C7: every page but the first starts right after an accepted phase-change
\* status read once the previous page had completed; the first page starts
\* right after the initial status, with no phase-change wait before it.
C7_PreSendWait ==
    \A p \in PageStarts :
        IF CountBefore(IsPageStart, p) = 0
        THEN /\ IsAccepted(log[p - 1], StatusReplyToRequest)
             /\ \A q \in 1..(p - 1) :
                   ~(log[q].op = "r" /\ log[q].want = StatusPhaseChange)
        ELSE /\ IsAccepted(log[p - 1], StatusPhaseChange)
             /\ IsAccepted(log[p - 2], StatusPrintingCompleted)

C7_Witness == Cardinality(PageStarts) = 2 /\ pc = "info"

\* C8: the print command is 1A for the last page and 0C for every other
\* page; a successful job of at least one page has written exactly one 1A
\* command, and it is the last write of the job.
C8_PrintCmd ==
    LET cmds == SelectSeq(log, IsPrintCmd)
    IN /\ \A j \in 1..Len(cmds) :
             cmds[j].b = (IF j = Len(imgs) THEN <<26>> ELSE <<12>>)
       /\ (Succeeded /\ Len(imgs) >= 1) =>
             /\ Cardinality({p \in PrintCmds : log[p].b = <<26>>}) = 1
             /\ Writes[Len(Writes)] = W(<<26>>, TRUE)

C8_Witness == Succeeded /\ Len(imgs) = 3 /\ Cardinality(PrintCmds) = 3

\* C9: the print command of a page is followed by one phase-change wait
\* when the page is not the last, and by two consecutive phase-change
\* waits when it is the last; the wait after them is not a phase-change one.
C9_PhaseWaits ==
    \A p \in PrintCmds :
        LET isLast == CountBefore(IsPrintCmd, p) + 1 = Len(imgs)
            Wants(q, kind) == log[q].op = "r" /\ log[q].want = kind
            NotPhase(q) == log[q].op = "r" /\ log[q].want # StatusPhaseChange
        IN /\ p + 1 <= Len(log) => Wants(p + 1, StatusPhaseChange)
           /\ p + 2 <= Len(log) =>
                 IF isLast THEN Wants(p + 2, StatusPhaseChange)
                           ELSE NotPhase(p + 2)
           /\ (p + 3 <= Len(log) /\ isLast) => NotPhase(p + 3)

C9_Witness ==
    /\ Len(imgs) = 2
    /\ Cardinality(PrintCmds) = 2
    /\ pc = "done"
    /\ log[Len(log)].op = "r" /\ log[Len(log)].want = StatusPrintingCompleted

\* C10 as stated: printing-completed is awaited once, after all pages have
\* been sent; no page is written after such a wait.
C10_Original ==
    /\ Len(SelectSeq(log, IsCompletedWait)) <= 1
    /\ \A q \in 1..Len(log) :
          IsCompletedWait(log[q]) =>
              \A p \in (q + 1)..Len(log) : log[p].op # "w"

\* C10 amended: printing-completed is awaited at the end of every page,
\* after the page's phase-change waits: page j starts only once j-1
\* printing-completed statuses were accepted, and a job of n pages succeeds
\* right after accepting the n-th one.
C10_Amended ==
    /\ \A p \in PageStarts :
          Len(SelectSeq(SubSeq(log, 1, p - 1),
                        LAMBDA e : IsAccepted(e, StatusPrintingCompleted)))
              = CountBefore(IsPageStart, p)
    /\ \A q \in 1..Len(log) :
          IsCompletedWait(log[q]) =>
              /\ log[q - 1].op = "r" /\ log[q - 1].want = StatusPhaseChange
              /\ CountBefore(IsPrintCmd, q) = CountBefore(IsCompletedWait, q) + 1
    /\ (Succeeded /\ Len(imgs) >= 1) =>
          /\ IsAccepted(log[Len(log)], StatusPrintingCompleted)
          /\ Len(SelectSeq(log, IsCompletedWait)) = Len(imgs)

C10_Witness ==
    /\ Succeeded
    /\ Len(imgs) = 2
    /\ Len(SelectSeq(log, IsCompletedWait)) = 2

IsAdvancedMode(e) ==
    e.op = "w" /\ e.ok /\ Len(e.b) = 4 /\ SubSeq(e.b, 1, 3) = <<27, 105, 75>>

\* C11 as stated: advanced-mode-settings carries 08 for every page that is
\* not the last of the job and 00 for the last or only page.
C11_Original ==
    LET adv == SelectSeq(log, IsAdvancedMode)
    IN \A j \in 1..Len(adv) :
          adv[j].b[4] = (IF j = Len(imgs) THEN 0 ELSE 8)

\* C11 amended: advanced-mode-settings is 1B 69 4B 08 for every page of the
\* job, the last or only page included; each page writes it once, before
\* its print command.
C11_Amended ==
    LET adv == SelectSeq(log, IsAdvancedMode)
    IN /\ \A j \in 1..Len(adv) : adv[j].b = <<27, 105, 75, 8>>
       /\ \A p \in PrintCmds :
             CountBefore(IsAdvancedMode, p) = CountBefore(IsPrintCmd, p) + 1
       /\ Succeeded => Len(adv) = Len(imgs)

C11_Witness ==
    /\ Succeeded
    /\ Len(imgs) = 2
    /\ Len(SelectSeq(log, IsAdvancedMode)) = 2

\* C12: a failed write or read is the last operation of the job: the call
\* has returned the error of that step, no page is started twice, and
\* nothing changes once the call has returned.
C12_StateInv ==
    /\ \A q \in 1..Len(log) :
          ~log[q].ok =>
              /\ q = Len(log)
              /\ Failed
              /\ IF log[q].op = "r"
                 THEN ret \in {"status read", "status type"}
                 ELSE ret \in {"invalidate", "initialize", "status write",
                               "enabling raster mode", "print information",
                               "mode settings", "advanced mode settings",
                               "margins", "compression", "raster", "print"}
    /\ (ret # "running") = (pc = "done")
    /\ Cardinality(PageStarts) <= i + 1

C12_Terminal == []C12_StateInv /\ [][pc # "done"]_vars

C12_Witness ==
    /\ Failed
    /\ Len(imgs) = 3
    /\ i = 1
    /\ ret = "raster"
    /\ ~log[Len(log)].ok
    /\ Len(log[Len(log)].b) > 0

\* C13: the raster lines of a page are its rows from Max.Y-1 down to
\* Min.Y, each packed and written once, and no line is built from a row
\* outside of the bitmap.
C13_Original ==
    pc = "print" =>
        LET n == ImgDy(Page)
            base == Len(log) - n
        IN /\ \A k \in 1..n :
                 log[base + k] =
                     W(rasterLine(status.MediaWidth, Page, Page.MaxY - k),
                       TRUE)
           /\ \A k \in 1..n :
                 /\ RasterRows(Page)[k] >= Page.MinY
                 /\ RasterRows(Page)[k] < Page.MaxY

\* ------------------------------------------------------------------
\* The functions of the driver taken one at a time: rasterLine, the
\* geometry lookups of MediaWidth and the decoding of a status reply.
\* A behaviour of FnSpec is one call: call holds the arguments, loc the
\* results.

NoImg == [MinX |-> 0, MinY |-> 0, MaxX |-> 0, MaxY |-> 0, pat |-> 0]

KnownWidths == {Width3_5, Width6, Width9, Width12, Width18, Width24}

\* Rows of a few pixels with every combination of black and white, and
\* rows as wide as each tape.
SmallImages ==
    UNION {[MinX : {x0}, MinY : {0}, MaxX : {x0 + dx}, MaxY : {dy},
            pat : {16 + m : m \in 0..(2 ^ (dx * dy) - 1)}] :
           x0 \in {0, -1}, dx \in 1..MaxRowWidth, dy \in 1..2}

WideImages ==
    [MinX : {0}, MinY : {0}, MaxX : {pixels(w) : w \in KnownWidths},
     MaxY : {1}, pat : {1, 2}]

RowImages == SmallImages \cup WideImages

FnCall(fn, w, img, y, a, b) ==
    [fn |-> fn, w |-> w, img |-> img, y |-> y, a |-> a, b |-> b]

RasterLineCalls ==
    UNION {{FnCall("rasterLine", w, img, y, <<>>, <<>>) :
               w \in KnownWidths \cup {5},
               y \in {img.MinY, img.MaxY - 1, img.MaxY}} :
           img \in RowImages}

GeometryCalls ==
    {FnCall("geometry", w, NoImg, 0, <<>>, <<>>) : w \in 0..255}

\* Pairs of replies: b carries the six fields of a, or another status
\* type, and other values in the reserved bytes.
DecodeCalls ==
    UNION {UNION {{FnCall("readStatus", 0, NoImg, 0,
                          MkRespNoise(e1, e2, w, t, k, ph, na),
                          MkRespNoise(e1, e2, w, t, kb, ph, nb)) :
                     na \in {0, 170}, nb \in {0, 85}, kb \in {k, 2}} :
                  e1 \in {0, Err1NoMedia}, e2 \in {0, Err2CoverOpen},
                  w \in {Width9, 5}} :
           t \in {TypeLaminated, 2, 255},
           k \in {StatusReplyToRequest, StatusPhaseChange, 9},
           ph \in {PhaseEditing, PhasePrinting}}

\* The String methods of status.go. A text is the sequence of its pieces:
\* names, separators and the digits of a number.

Err1CutterJam == 4
Err1WeakBatteries == 8
Err1HighVoltageAdapter == 64
Err2ReplaceMedia == 1
Err2Overheating == 32
TypeNoMedia == 0
TypeNonLaminated == 3
TypeHeatShrink21 == 17
TypeHeatShrink31 == 23
TypeIncompatible == 255

HexChars ==
    <<"0", "1", "2", "3", "4", "5", "6", "7", "8", "9", "a", "b", "c", "d",
      "e", "f">>

\* %x of a byte
FormatHex(v) ==
    IF v < 16 THEN <<HexChars[v + 1]>>
    ELSE <<HexChars[(v \div 16) + 1], HexChars[(v % 16) + 1]>>

\* %d of a byte
FormatDec(v) ==
    IF v < 10 THEN <<HexChars[v + 1]>>
    ELSE IF v < 100
    THEN <<HexChars[(v \div 10) + 1], HexChars[(v % 10) + 1]>>
    ELSE <<HexChars[(v \div 100) + 1], HexChars[((v \div 10) % 10) + 1],
           HexChars[(v % 10) + 1]>>

BitOf(v, k) == (v \div (2 ^ k)) % 2

\* val & ^seen
AndNot(val, seen) ==
    LET B(k) == IF BitOf(val, k) = 1 /\ BitOf(seen, k) = 0 THEN 2 ^ k ELSE 0
    IN B(0) + B(1) + B(2) + B(3) + B(4) + B(5) + B(6) + B(7)

\* Mutant of UnknownBits: the bits without a name are forgotten.
UnknownBitsNone(val, seen) == 0

UnknownBits(val, seen) == AndNot(val, seen)

RECURSIVE SeenBits(_, _)
SeenBits(val, fields) ==
    IF fields = <<>> THEN 0
    ELSE (IF AndNot(val, 255 - Head(fields).b) # 0 THEN Head(fields).b ELSE 0)
             + SeenBits(val, Tail(fields))

\* strings.Join(set, "|")
RECURSIVE Join(_)
Join(set) ==
    IF set = <<>> THEN <<>>
    ELSE IF Len(set) = 1 THEN Head(set)
    ELSE Head(set) \o <<"|">> \o Join(Tail(set))

bitfieldString(val, fields) ==
    IF val = 0 THEN <<"None">>
    ELSE LET IsSet(f) == AndNot(val, 255 - f.b) # 0
             named == SelectSeq(fields, IsSet)
             set == [k \in 1..Len(named) |-> <<named[k].name>>]
             unknown == UnknownBits(val, SeenBits(val, fields))
         IN IF unknown # 0
            THEN Join(Append(set, <<"Unknown(0x">> \o FormatHex(unknown)
                                      \o <<")">>))
            ELSE Join(set)

Error1String(e) ==
    bitfieldString(e, <<[b |-> Err1NoMedia, name |-> "NoMedia"],
                        [b |-> Err1CutterJam, name |-> "CutterJam"],
                        [b |-> Err1WeakBatteries, name |-> "WeakBatteries"],
                        [b |-> Err1HighVoltageAdapter,
                         name |-> "HighVoltageAdapter"]>>)

Error2String(e) ==
    bitfieldString(e, <<[b |-> Err2ReplaceMedia, name |-> "ReplaceMedia"],
                        [b |-> Err2CoverOpen, name |-> "CoverOpen"],
                        [b |-> Err2Overheating, name |-> "Overheating"]>>)

MediaWidthString(w) ==
    CASE w = WidthNoMedia -> <<"NoMedia">>
      [] w = Width3_5 -> <<"3.5mm">>
      [] w \in {Width6, Width9, Width12, Width18, Width24} ->
           FormatDec(w) \o <<"mm">>
      [] OTHER -> <<"Unknown(">> \o FormatDec(w) \o <<")">>

MediaTypeString(t) ==
    CASE t = TypeNoMedia -> <<"None">>
      [] t = TypeLaminated -> <<"Laminated">>
      [] t = TypeNonLaminated -> <<"NonLaminated">>
      [] t = TypeHeatShrink21 -> <<"HeatShrink2:1">>
      [] t = TypeHeatShrink31 -> <<"HeatShrink3:1">>
      [] t = TypeIncompatible -> <<"Incompatible">>
      [] OTHER -> <<"Unknown(0x">> \o FormatHex(t) \o <<")">>

StatusTypeString(t) ==
    CASE t = StatusReplyToRequest -> <<"ReplyToStatusRequest">>
      [] t = StatusPrintingCompleted -> <<"PrintingCompleted">>
      [] t = StatusErrorOccurred -> <<"StatusErrorOccurred">>
      [] t = StatusExitIFMode -> <<"StatusExitIFMode">>
      [] t = StatusTurnedOff -> <<"StatusTurnedOff">>
      [] t = StatusNotification -> <<"StatusNotification">>
      [] t = StatusPhaseChange -> <<"StatusPhaseChange">>
      [] OTHER -> <<"Unknown(0x">> \o FormatHex(t) \o <<")">>

PhaseTypeString(ph) ==
    CASE ph = PhaseEditing -> <<"Editing">>
      [] ph = PhasePrinting -> <<"Printing">>
      [] OTHER -> <<"PhaseType(0x">> \o FormatHex(ph) \o <<")">>

StringMethods ==
    {"Error1.String", "Error2.String", "MediaWidth.String",
     "MediaType.String", "StatusType.String", "PhaseType.String"}

StringCalls ==
    {FnCall(m, v, NoImg, 0, <<>>, <<>>) : m \in StringMethods, v \in 0..255}

\* One String method applied to one byte.
StringCall ==
    /\ pc = "fn"
    /\ call.fn \in StringMethods
    /\ loc' = [text |->
                 CASE call.fn = "Error1.String" -> Error1String(call.w)
                   [] call.fn = "Error2.String" -> Error2String(call.w)
                   [] call.fn = "MediaWidth.String" ->
                        MediaWidthString(call.w)
                   [] call.fn = "MediaType.String" -> MediaTypeString(call.w)
                   [] call.fn = "StatusType.String" ->
                        StatusTypeString(call.w)
                   [] OTHER -> PhaseTypeString(call.w)]
    /\ pc' = "done"
    /\ ret' = "nil"
    /\ UNCHANGED <<imgs, i, status, log, call>>

\* Status.Err on statuses with every pair of a few error bytes.
ErrCalls ==
    {FnCall("Status.Err", 0, NoImg, 0, <<e1, e2>>, <<>>) :
        e1 \in {0, Err1NoMedia, Err1CutterJam + Err1WeakBatteries, 2, 255},
        e2 \in {0, Err2ReplaceMedia, Err2CoverOpen + Err2Overheating, 128}}

\* Status.Err: nil, or an error whose text is the %v of the error byte.
ErrCall ==
    /\ pc = "fn"
    /\ call.fn = "Status.Err"
    /\ LET s == [NoStatus EXCEPT !.Err1 = call.a[1], !.Err2 = call.a[2]]
       IN /\ loc' = [text |-> CASE StatusErr(s) = "err1" ->
                                    Error1String(s.Err1)
                                 [] StatusErr(s) = "err2" ->
                                    Error2String(s.Err2)
                                 [] OTHER -> <<>>]
          /\ ret' = IF StatusErr(s) = "nil" THEN "nil" ELSE "error"
    /\ pc' = "done"
    /\ UNCHANGED <<imgs, i, status, log, call>>

\* Sources for pad: narrower than, as wide as and wider than the tape,
\* shorter than, as long as and longer than MinDy, anywhere in the plane.
PadSources ==
    UNION {[MinX : {x0}, MinY : {y0}, MaxX : {x0 + dx}, MaxY : {y0 + dy},
            pat : {2}] :
           x0 \in {0, -3}, y0 \in {0, 5}, dx \in {1, 22, 23, 24, 25, 32, 33},
           dy \in {1, 169, 170, 171, 172, 173}}

PadCalls ==
    {FnCall("pad", w, src, 0, <<>>, <<>>) :
        w \in {Width3_5, Width6}, src \in PadSources}

\* pad with the bounds the print command builds from the tape width.
PadCall ==
    /\ pc = "fn"
    /\ call.fn = "pad"
    /\ IF padErr(Bounds(call.w), call.img)
       THEN /\ loc' = [dst |-> NoImg]
            /\ ret' = "image too wide"
       ELSE /\ loc' = [dst |-> pad(Bounds(call.w), call.img)]
            /\ ret' = "nil"
    /\ pc' = "done"
    /\ UNCHANGED <<imgs, i, status, log, call>>

FnInit ==
    /\ pc = "fn"
    /\ imgs = <<>>
    /\ i = 0
    /\ status = NoStatus
    /\ log = <<>>
    /\ ret = "running"
    /\ call \in RasterLineCalls \cup GeometryCalls \cup DecodeCalls
                 \cup StringCalls \cup ErrCalls \cup PadCalls
    /\ loc = <<>>

\* rasterLine, lines 593-618.
RasterLineCall ==
    /\ pc = "fn"
    /\ call.fn = "rasterLine"
    /\ IF unusedPins(call.w) < 0
       THEN /\ pc' = "done"
            /\ ret' = "unknown tape width"
            /\ log' = log
       ELSE IF rasterLinePanics(call.w, call.img, call.y)
       THEN /\ pc' = "done"
            /\ ret' = "panic"
            /\ log' = log
       ELSE LET line == rasterLine(call.w, call.img, call.y)
            IN \/ /\ log' = Append(log, W(line, TRUE))
                  /\ pc' = "done"
                  /\ ret' = "nil"
               \/ \E k \in PartialLens(line) :
                     /\ log' = Append(log, W(SubSeq(line, 1, k), FALSE))
                     /\ pc' = "done"
                     /\ ret' = "write"
    /\ UNCHANGED <<imgs, i, status, call, loc>>


\* MediaWidth.pixels, unusedPins and MinBounds for one width byte.
GeometryCall ==
    /\ pc = "fn"
    /\ call.fn = "geometry"
    /\ loc' = [pixels |-> pixels(call.w),
               unusedPins |-> unusedPins(call.w),
               minBounds |-> MinBounds(call.w)]
    /\ pc' = "done"
    /\ ret' = "nil"
    /\ UNCHANGED <<imgs, i, status, log, call>>

\* readStatus, lines 665-672, on two replies.
DecodeCall ==
    /\ pc = "fn"
    /\ call.fn = "readStatus"
    /\ loc' = [sa |-> Decode(call.a), sb |-> Decode(call.b)]
    /\ pc' = "done"
    /\ ret' = "nil"
    /\ UNCHANGED <<imgs, i, status, log, call>>

FnNext ==
    \/ RasterLineCall
    \/ GeometryCall
    \/ DecodeCall
    \/ StringCall
    \/ ErrCall
    \/ PadCall

FnSpec == FnInit /\ [][FnNext]_vars

\* C14: a packed row is 47 10 00 and 16 bytes in which pin p, most
\* significant bit first, is set exactly when p - o is a pixel of the row
\* and that pixel is black, o being the pin offset of the tape; the row
\* black, white, black at offset 0 gives a first byte of A0.
RowBit(line, pin) == (line[4 + (pin \div 8)] \div Pow2(7 - (pin % 8))) % 2

C14_RowPacking ==
    (pc = "done" /\ call.fn = "rasterLine" /\ ret = "nil") =>
        LET line == log[1].b
            img == call.img
            o == (128 - pixels(call.w)) \div 2
        IN /\ Len(line) = 19
           /\ SubSeq(line, 1, 3) = <<71, 16, 0>>
           /\ \A p \in 0..127 :
                 (RowBit(line, p) = 1) =
                     (/\ p - o \in 0..(ImgDx(img) - 1)
                      /\ BlackAt(img, img.MinX + (p - o), call.y))
           /\ (/\ o = 0 /\ ImgDx(img) = 3 /\ call.y = img.MinY
               /\ BlackAt(img, img.MinX, call.y)
               /\ ~BlackAt(img, img.MinX + 1, call.y)
               /\ BlackAt(img, img.MinX + 2, call.y)) => line[4] = 160

C14_Witness ==
    /\ pc = "done"
    /\ call.fn = "rasterLine"
    /\ ret = "nil"
    /\ call.w = Width24
    /\ call.img = [MinX |-> 0, MinY |-> 0, MaxX |-> 3, MaxY |-> 1,
                   pat |-> 16 + 5]
    /\ call.y = 0
    /\ log[1].b[4] = 160

\* C15: a job of one page shorter than MinDy is not rejected but padded:
\* floor((MinDy - h) / 2) empty raster lines are written, then the h rows
\* of the bitmap.
IsRasterLine(e) ==
    e.op = "w" /\ e.ok /\ Len(e.b) = 19 /\ SubSeq(e.b, 1, 3) = <<71, 16, 0>>

IsEmptyLine(e) == e.b = <<71, 16, 0>> \o [k \in 1..16 |-> 0]

IsPaddedJob == Len(imgs) = 1 /\ imgs[1].pat = 3

C15_Original ==
    /\ (Returned /\ IsPaddedJob) => ret # "image height"
    /\ (pc = "print" /\ IsPaddedJob) =>
          LET lines == SelectSeq(log, IsRasterLine)
              h == imgs[1].src.MaxY - imgs[1].src.MinY
              f == (MinDy - h) \div 2
          IN /\ Len(lines) >= f + h
             /\ \A k \in 1..f : IsEmptyLine(lines[k])
             /\ \A k \in (f + 1)..(f + h) : ~IsEmptyLine(lines[k])

\* C16: for each of the six known tape widths the lookups succeed and give
\* a pin offset o and a pixel span s with o + s <= 128 and
\* o = (128 - s) \div 2, so that every pin o + k of a row of s pixels is
\* in 0..127.
C16_Geometry ==
    (pc = "done" /\ call.fn = "geometry" /\ call.w \in {4, 6, 9, 12, 18, 24})
        => LET o == loc.unusedPins
               s == loc.pixels
           IN /\ s > 0
              /\ o >= 0
              /\ o + s <= 128
              /\ o = (128 - s) \div 2
              /\ \A k \in 0..(s - 1) : o + k \in 0..127

C16_Witness ==
    /\ pc = "done"
    /\ call.fn = "geometry"
    /\ call.w = 18
    /\ loc.pixels = 112
    /\ loc.unusedPins = 8

\* C17: for a width byte that is not a known width, 0 included, the pixel
\* span, the minimum bounds and the pin offset all return an error, and
\* a job on such a tape fails before any page command is written.
C17_Original ==
    /\ (pc = "done" /\ call.fn = "geometry"
            /\ call.w \notin {4, 6, 9, 12, 18, 24})
        => /\ loc.pixels < 0
           /\ loc.unusedPins < 0
           /\ loc.minBounds.err
    /\ (Returned /\ StatusSeen /\ status.MediaWidth \notin {4, 6, 9, 12, 18, 24})
        => Failed /\ PageStarts = {}

\* C18: the six fields of a status come from bytes 8, 9, 10, 11, 18 and 19
\* of the reply and from no other byte: replies equal on these bytes
\* decode to the same status, and 0, 0, 9, 1, 0, 0 is a reply to a status
\* request without error for a laminated 9mm tape.
C18_Decode ==
    (pc = "done" /\ call.fn = "readStatus") =>
        LET a == call.a
            b == call.b
            Six(r) == <<r[9], r[10], r[11], r[12], r[19], r[20]>>
        IN /\ <<loc.sa.Err1, loc.sa.Err2, loc.sa.MediaWidth,
                loc.sa.MediaType, loc.sa.Type, loc.sa.Phase>> = Six(a)
           /\ DOMAIN loc.sa = {"Err1", "Err2", "MediaWidth", "MediaType",
                               "Type", "Phase"}
           /\ Six(a) = Six(b) => loc.sa = loc.sb
           /\ Six(a) = <<0, 0, 9, 1, 0, 0>> =>
                 /\ StatusErr(loc.sa) = "nil"
                 /\ loc.sa.MediaWidth = Width9
                 /\ loc.sa.MediaType = TypeLaminated
                 /\ loc.sa.Type = StatusReplyToRequest

C18_Witness ==
    /\ pc = "done"
    /\ call.fn = "readStatus"
    /\ call.a # call.b
    /\ call.a[19] = call.b[19]
    /\ call.a[9] = 0 /\ call.a[10] = 0 /\ call.a[11] = 9
    /\ call.a[12] = 1 /\ call.a[19] = 0 /\ call.a[20] = 0
    /\ call.a[18] = 170
    /\ loc.sa = loc.sb

\* ------------------------------------------------------------------
\* PT700.write, one unix.Write at a time. call.b is the buffer, loc.wrote
\* the local of the loop, loc.chan the bytes handed to the file
\* descriptor so far, loc.errno the result of the last unix.Write and
\* loc.eintr the number of interrupted calls.

WriteBuffers ==
    {[k \in 1..n |-> k] : n \in 0..MaxBuf}
        \cup {Initialize, StatusRequest, RasterMode, Margin, Compression}

WriteInit ==
    /\ pc = "write"
    /\ imgs = <<>>
    /\ i = 0
    /\ status = NoStatus
    /\ log = <<>>
    /\ ret = "running"
    /\ call \in {FnCall("write", 0, NoImg, 0, <<>>, b) : b \in WriteBuffers}
    /\ loc = [wrote |-> 0, chan |-> <<>>, errno |-> "none", eintr |-> 0]

\* Mutant of Rest: the whole buffer is passed again.
RestFromStart(b, wrote) == b

\* b[wrote:]
Rest(b, wrote) == SubSeq(b, wrote + 1, Len(b))

\* unix.Write takes the first n bytes of b[wrote:]; wrote += n.
WriteSome ==
    /\ pc = "write"
    /\ loc.wrote # Len(call.b)
    /\ \E n \in 1..(Len(call.b) - loc.wrote) :
          loc' = [loc EXCEPT
                     !.chan = @ \o SubSeq(Rest(call.b, loc.wrote), 1, n),
                     !.wrote = @ + n,
                     !.errno = "none"]
    /\ UNCHANGED <<pc, imgs, i, status, log, ret, call>>

\* unix.Write is interrupted before it takes a byte: continue.
WriteEintr ==
    /\ pc = "write"
    /\ loc.wrote # Len(call.b)
    /\ loc.eintr < MaxEintr
    /\ loc' = [loc EXCEPT !.errno = "EINTR", !.eintr = @ + 1]
    /\ UNCHANGED <<pc, imgs, i, status, log, ret, call>>

\* Any other error of unix.Write is returned.
WriteError ==
    /\ pc = "write"
    /\ loc.wrote # Len(call.b)
    /\ loc' = [loc EXCEPT !.errno = "EIO"]
    /\ pc' = "done"
    /\ ret' = "write"
    /\ UNCHANGED <<imgs, i, status, log, call>>

\* The loop ends when wrote = len(b).
WriteReturn ==
    /\ pc = "write"
    /\ loc.wrote = Len(call.b)
    /\ pc' = "done"
    /\ ret' = "nil"
    /\ UNCHANGED <<imgs, i, status, log, call, loc>>

WriteNext ==
    \/ WriteSome
    \/ WriteEintr
    \/ WriteError
    \/ WriteReturn

WriteSpec == WriteInit /\ [][WriteNext]_vars

\* C19: the bytes handed to the channel are always the first wrote bytes
\* of b, in order and once each, whatever short writes and interruptions
\* happened; when write returns nil they are exactly b; an interrupted
\* call changes neither wrote nor the bytes handed over; any other error
\* makes write return an error.
C19_WriteAll ==
    /\ loc.wrote \in 0..Len(call.b)
    /\ loc.chan = [k \in 1..loc.wrote |-> call.b[k]]
    /\ (pc = "done" /\ ret = "nil") => loc.chan = call.b
    /\ loc.errno = "EIO" => (pc = "done" /\ ret = "write")
    /\ (pc = "done" /\ ret = "nil") => loc.errno # "EIO"

C19_Eintr ==
    [][loc'.errno = "EINTR" => (loc'.chan = loc.chan /\ loc'.wrote = loc.wrote)]_vars

C19_Write == []C19_WriteAll /\ C19_Eintr

C19_Witness ==
    /\ pc = "done"
    /\ ret = "nil"
    /\ Len(call.b) = 3
    /\ loc.eintr = 1
    /\ loc.chan = <<1, 2, 3>>

\* ------------------------------------------------------------------
\* PT700.read and readFull, one system call at a time, with a clock in
\* milliseconds. loc.now is the clock, loc.deadline the local of read,
\* loc.read the bytes stored so far, loc.n the local read of readFull,
\* loc.wait and loc.pollEnd the duration and the end of the last poll,
\* loc.spurious whether a poll reported data and readFull found none,
\* loc.buf the buffer handed to read (0: a byte never stored), loc.taken
\* the number of bytes taken from the channel, whose k-th byte is k, and
\* loc.bursts the number of readFull calls that returned with bytes,
\* loc.revents the Revents of the last poll when it returned events
\* ({"none"} otherwise; the empty set is an event with other bits only).
\* The time between reading the clock and entering poll is not modelled,
\* and unix.Read returns without waiting.

ReplyLen == 32
ReadChunks == {8, 31, 32}
PollFlags == {"POLLNVAL", "POLLERR", "POLLHUP", "POLLIN"}

ReadInit ==
    /\ pc = "loop"
    /\ imgs = <<>>
    /\ i = 0
    /\ status = NoStatus
    /\ log = <<>>
    /\ ret = "running"
    /\ call \in {[fn |-> "read", len |-> ReplyLen, timeout |-> t] :
                    t \in 0..MaxTimeout}
    /\ loc = [now |-> 0, deadline |-> call.timeout, read |-> 0, n |-> 0,
              eintr |-> 0, wait |-> 0, pollEnd |-> 0, spurious |-> FALSE,
              buf |-> [k \in 1..call.len |-> 0], taken |-> 0, bursts |-> 0,
              revents |-> {"none"}]

\* Mutant of Remaining: every poll is given the whole timeout.
RemainingWholeTimeout(deadline, now) == call.timeout

\* time.Until(deadline).Milliseconds()
Remaining(deadline, now) == deadline - now

ReadJunk == <<imgs, i, status, log, call>>

\* Time passes.
Tick ==
    /\ pc \in {"loop", "readFull"}
    /\ loc.now < MaxTimeout + 2
    /\ loc' = [loc EXCEPT !.now = @ + 1]
    /\ UNCHANGED <<pc, ret>>
    /\ UNCHANGED ReadJunk

\* The loop ends when read >= len(buf).
ReadReturn ==
    /\ pc = "loop"
    /\ loc.read >= call.len
    /\ pc' = "done"
    /\ ret' = "nil"
    /\ UNCHANGED loc
    /\ UNCHANGED ReadJunk

\* remaining < 0
ReadDeadline ==
    /\ pc = "loop"
    /\ loc.read < call.len
    /\ Remaining(loc.deadline, loc.now) < 0
    /\ pc' = "done"
    /\ ret' = "deadline exceeded"
    /\ UNCHANGED loc
    /\ UNCHANGED ReadJunk

\* A poll that lasts d milliseconds.
Polled(d) ==
    [loc EXCEPT !.now = @ + d, !.wait = d, !.pollEnd = loc.now + d,
                !.revents = {"none"}]

\* Mutant of OnRevents: data that is ready is read whatever else is
\* reported.
OnReventsDataFirst(revents) ==
    IF "POLLIN" \in revents THEN "readFull"
    ELSE IF "POLLNVAL" \in revents THEN "POLLNVAL"
    ELSE IF "POLLERR" \in revents \/ "POLLHUP" \in revents
    THEN "printer disconnected"
    ELSE "no data"

\* The cases of the switch on pollFds[0].Revents, in order.
OnRevents(revents) ==
    IF "POLLNVAL" \in revents THEN "POLLNVAL"
    ELSE IF "POLLERR" \in revents \/ "POLLHUP" \in revents
    THEN "printer disconnected"
    ELSE IF "POLLIN" \notin revents THEN "no data"
    ELSE "readFull"

CanPoll ==
    /\ pc = "loop"
    /\ loc.read < call.len
    /\ Remaining(loc.deadline, loc.now) >= 0

\* poll is interrupted: continue.
PollEintr ==
    /\ CanPoll
    /\ loc.eintr < MaxEintr
    /\ \E d \in 0..Remaining(loc.deadline, loc.now) :
          loc' = [Polled(d) EXCEPT !.eintr = @ + 1]
    /\ UNCHANGED <<pc, ret>>
    /\ UNCHANGED ReadJunk

\* poll fails.
PollError ==
    /\ CanPoll
    /\ \E d \in 0..Remaining(loc.deadline, loc.now) : loc' = Polled(d)
    /\ pc' = "done"
    /\ ret' = "poll"
    /\ UNCHANGED ReadJunk

\* poll returns 0 after the whole of its timeout.
PollTimeout ==
    /\ CanPoll
    /\ loc' = Polled(Remaining(loc.deadline, loc.now))
    /\ pc' = "done"
    /\ ret' = "deadline exceeded"
    /\ UNCHANGED ReadJunk

\* poll returns events: the switch on Revents, then readFull is entered.
PollEvents ==
    /\ CanPoll
    /\ \E d \in 0..Remaining(loc.deadline, loc.now),
          revents \in SUBSET PollFlags :
          /\ loc' = [Polled(d) EXCEPT !.n = 0, !.revents = revents]
          /\ IF OnRevents(revents) = "readFull"
             THEN pc' = "readFull" /\ ret' = ret
             ELSE pc' = "done" /\ ret' = OnRevents(revents)
    /\ UNCHANGED ReadJunk

\* readFull: unix.Read is interrupted: continue.
ReadFullEintr ==
    /\ pc = "readFull"
    /\ loc.eintr < MaxEintr
    /\ loc' = [loc EXCEPT !.eintr = @ + 1]
    /\ UNCHANGED <<pc, ret>>
    /\ UNCHANGED ReadJunk

\* readFull: unix.Read fails; read returns the error.
ReadFullError ==
    /\ pc = "readFull"
    /\ loc' = [loc EXCEPT !.n = 0]
    /\ pc' = "done"
    /\ ret' = "read"
    /\ UNCHANGED ReadJunk

\* Mutant of Store: readFull is handed buf instead of buf[read:].
StoreFromStart(buf, read, n, c, taken) ==
    [k \in DOMAIN buf |->
        IF k \in (n + 1)..(n + c) THEN taken + (k - n) ELSE buf[k]]

\* unix.Read(fd, b[n:]) with b = buf[read:]: the next c bytes of the
\* channel go to buf[read+n], ..., buf[read+n+c-1] (counted from 0).
Store(buf, read, n, c, taken) ==
    [k \in DOMAIN buf |->
        IF k \in (read + n + 1)..(read + n + c)
        THEN taken + (k - (read + n))
        ELSE buf[k]]

\* readFull: unix.Read stores c bytes; readFull returns when b is full.
ReadFullData ==
    /\ pc = "readFull"
    /\ \E c \in ReadChunks :
          /\ c <= (call.len - loc.read) - loc.n
          /\ IF loc.n + c = call.len - loc.read
             THEN /\ loc' = [loc EXCEPT
                               !.buf = Store(@, loc.read, loc.n, c, loc.taken),
                               !.taken = @ + c,
                               !.read = @ + loc.n + c, !.n = 0,
                               !.bursts = @ + 1]
                  /\ pc' = "loop"
             ELSE /\ loc' = [loc EXCEPT
                               !.buf = Store(@, loc.read, loc.n, c, loc.taken),
                               !.taken = @ + c,
                               !.n = @ + c]
                  /\ pc' = pc
    /\ ret' = ret
    /\ UNCHANGED ReadJunk

\* readFull: unix.Read returns 0; readFull returns what it has.
ReadFullEOF ==
    /\ pc = "readFull"
    /\ loc' = [loc EXCEPT !.read = @ + loc.n, !.n = 0,
                          !.spurious = @ \/ loc.n = 0,
                          !.bursts = IF loc.n > 0 THEN @ + 1 ELSE @]
    /\ pc' = "loop"
    /\ ret' = ret
    /\ UNCHANGED ReadJunk

\* Mutant of ReadStatusDecode: the error of read is not looked at.
ReadStatusIgnoresError ==
    /\ pc = "done"
    /\ status = NoStatus
    /\ status' = Decode(loc.buf)
    /\ UNCHANGED <<pc, imgs, i, log, ret, call, loc>>

\* readStatus lines 660-672: resp is decoded once read has returned nil;
\* after an error the status returned is Status{}.
ReadStatusDecode ==
    /\ pc = "done"
    /\ ret = "nil"
    /\ status = NoStatus
    /\ status' = Decode(loc.buf)
    /\ UNCHANGED <<pc, imgs, i, log, ret, call, loc>>

ReadStep ==
    \/ ReadReturn
    \/ ReadDeadline
    \/ PollEintr
    \/ PollError
    \/ PollTimeout
    \/ PollEvents
    \/ ReadFullEintr
    \/ ReadFullError
    \/ ReadFullData
    \/ ReadFullEOF

ReadNext ==
    \/ Tick
    \/ ReadReturn
    \/ ReadDeadline
    \/ PollEintr
    \/ PollError
    \/ PollTimeout
    \/ PollEvents
    \/ ReadFullEintr
    \/ ReadFullError
    \/ ReadFullData
    \/ ReadFullEOF
    \/ ReadStatusDecode

ReadSpec == ReadInit /\ [][ReadNext]_vars

\* The clock advances and the process keeps running.
ReadFairSpec ==
    ReadInit /\ [][ReadNext]_vars /\ WF_vars(Tick) /\ WF_vars(ReadStep)

\* C20: a read returns; when it returns with fewer than 32 bytes and
\* without an error of poll or of unix.Read, it returns deadline exceeded
\* and the deadline is reached, also when poll keeps reporting data and
\* unix.Read returns nothing; no poll lasts beyond the deadline.
C20_Safety ==
    /\ (pc = "done" /\ loc.read < 32
            /\ ret \notin {"poll", "POLLNVAL", "printer disconnected",
                           "no data", "read"})
          => (ret = "deadline exceeded" /\ loc.now >= loc.deadline)
    /\ (pc = "done" /\ ret = "nil") => loc.read = 32
    /\ loc.wait > 0 => loc.pollEnd <= loc.deadline

C20_Deadline == []C20_Safety /\ <>(pc = "done")

C20_Witness ==
    /\ pc = "done"
    /\ ret = "deadline exceeded"
    /\ call.timeout = 2
    /\ loc.spurious
    /\ loc.read = 0
    /\ loc.wait = 0
    /\ loc.now > loc.deadline

\* ------------------------------------------------------------------
\* PT700.Status and the start of PT700.Print on a channel that holds
\* bytes: reset (invalidate, then readUntilEOF), initialize for Print,
\* the status request and the read of the 32 bytes of the reply.
\* loc.queue is what unix.Read can take now: "stale" bytes were there
\* when the call started, "late" bytes are sent by the device during the
\* call without being asked, "reply" bytes answer the status request.
\* loc.resp is the buffer of readStatus, loc.replied the bytes of the
\* reply sent so far. The polling of read is modelled in ReadSpec; here
\* a read of the reply takes what is there or gives up.

DrainChunk == 128

Bytes(n, tag) == [k \in 1..n |-> tag]

ChanCalls == {"Status", "Print"}

ChanInit ==
    /\ pc = "reset"
    /\ imgs = <<>>
    /\ i = 0
    /\ status = NoStatus
    /\ log = <<>>
    /\ ret = "running"
    /\ call \in [fn : ChanCalls]
    /\ \E n \in (0..MaxPending) \cup {DrainChunk + 1} :
          loc = [queue |-> Bytes(n, "stale"), resp |-> <<>>, replied |-> 0,
                 eintr |-> 0]

ChanJunk == <<imgs, i, status, log, call>>

\* reset: the invalidate command is written.
ChanInvalidate ==
    /\ pc = "reset"
    /\ \/ pc' = "drain" /\ ret' = ret
       \/ pc' = "done" /\ ret' = "invalidate"
    /\ UNCHANGED loc
    /\ UNCHANGED ChanJunk

\* readUntilEOF: unix.Read takes up to 128 bytes and the loop goes on.
DrainData ==
    /\ pc = "drain"
    /\ Len(loc.queue) > 0
    /\ \E n \in 1..Len(loc.queue) :
          /\ n <= DrainChunk
          /\ loc' = [loc EXCEPT !.queue = SubSeq(@, n + 1, Len(@))]
    /\ UNCHANGED <<pc, ret>>
    /\ UNCHANGED ChanJunk

\* readUntilEOF: unix.Read is interrupted: continue.
DrainEintr ==
    /\ pc = "drain"
    /\ loc.eintr < MaxEintr
    /\ loc' = [loc EXCEPT !.eintr = @ + 1]
    /\ UNCHANGED <<pc, ret>>
    /\ UNCHANGED ChanJunk

\* readUntilEOF: unix.Read fails.
DrainError ==
    /\ pc = "drain"
    /\ pc' = "done"
    /\ ret' = "drain"
    /\ UNCHANGED loc
    /\ UNCHANGED ChanJunk

\* Mutant of DrainEOF: the drain returns without an empty read.
DrainReturnsAtOnce ==
    /\ pc = "drain"
    /\ pc' = IF call.fn = "Print" THEN "initialize" ELSE "statusWrite"
    /\ ret' = ret
    /\ UNCHANGED loc
    /\ UNCHANGED ChanJunk

\* readUntilEOF: unix.Read returns 0: return nil.
DrainEOF ==
    /\ pc = "drain"
    /\ Len(loc.queue) = 0
    /\ pc' = IF call.fn = "Print" THEN "initialize" ELSE "statusWrite"
    /\ ret' = ret
    /\ UNCHANGED loc
    /\ UNCHANGED ChanJunk

\* Print: the initialize command is written.
ChanInitialize ==
    /\ pc = "initialize"
    /\ \/ pc' = "statusWrite" /\ ret' = ret
       \/ pc' = "done" /\ ret' = "initialize"
    /\ UNCHANGED loc
    /\ UNCHANGED ChanJunk

\* status: the status request is written.
ChanStatusWrite ==
    /\ pc = "statusWrite"
    /\ \/ pc' = "reply" /\ ret' = ret
       \/ pc' = "done" /\ ret' = "status write"
    /\ UNCHANGED loc
    /\ UNCHANGED ChanJunk

\* readStatus: read stores what is there, up to the 32 bytes of resp.
ReplyData ==
    /\ pc = "reply"
    /\ Len(loc.resp) < ReplyLen
    /\ Len(loc.queue) > 0
    /\ LET m == IF Len(loc.queue) < ReplyLen - Len(loc.resp)
                THEN Len(loc.queue) ELSE ReplyLen - Len(loc.resp)
       IN loc' = [loc EXCEPT !.resp = @ \o SubSeq(loc.queue, 1, m),
                             !.queue = SubSeq(@, m + 1, Len(@))]
    /\ UNCHANGED <<pc, ret>>
    /\ UNCHANGED ChanJunk

\* readStatus: read fails or its deadline is exceeded.
ReplyFail ==
    /\ pc = "reply"
    /\ Len(loc.resp) < ReplyLen
    /\ pc' = "done"
    /\ ret' = "status read"
    /\ UNCHANGED loc
    /\ UNCHANGED ChanJunk

\* readStatus: resp is full and is decoded.
ReplyDone ==
    /\ pc = "reply"
    /\ Len(loc.resp) = ReplyLen
    /\ pc' = "done"
    /\ ret' = "nil"
    /\ UNCHANGED loc
    /\ UNCHANGED ChanJunk

\* The device sends a byte nobody asked for.
DeviceLate ==
    /\ pc \in {"reset", "drain", "initialize", "statusWrite", "reply"}
    /\ Len(loc.queue) < MaxPending
    /\ loc' = [loc EXCEPT !.queue = Append(@, "late")]
    /\ UNCHANGED <<pc, ret>>
    /\ UNCHANGED ChanJunk

\* The device answers the status request, in one or two pieces.
DeviceReply ==
    /\ pc = "reply"
    /\ \E n \in {16, 32} :
          /\ loc.replied + n <= ReplyLen
          /\ loc' = [loc EXCEPT !.queue = @ \o Bytes(n, "reply"),
                                !.replied = @ + n]
    /\ UNCHANGED <<pc, ret>>
    /\ UNCHANGED ChanJunk

ChanStep ==
    \/ ChanInvalidate
    \/ DrainData
    \/ DrainEintr
    \/ DrainError
    \/ DrainEOF
    \/ ChanInitialize
    \/ ChanStatusWrite
    \/ ReplyData
    \/ ReplyFail
    \/ ReplyDone

ChanNext ==
    \/ ChanInvalidate
    \/ DrainData
    \/ DrainEintr
    \/ DrainError
    \/ DrainEOF
    \/ ChanInitialize
    \/ ChanStatusWrite
    \/ ReplyData
    \/ ReplyFail
    \/ ReplyDone
    \/ DeviceLate
    \/ DeviceReply

ChanSpec == ChanInit /\ [][ChanNext]_vars

\* The process keeps running; nothing is assumed of the device.
ChanFairSpec == ChanInit /\ [][ChanNext]_vars /\ WF_vars(ChanStep)

\* C21: every read of the channel is bounded, the drain of reset
\* included: a call that is draining leaves the drain, also when the
\* device keeps sending bytes.
C21_Original == (pc = "drain") ~> (pc # "drain")

StrictResults == {-1, 0, 16, 32}

StrictScripts == UNION {[1..n -> StrictResults] : n \in 0..MaxScript}

StrictInit ==
    /\ pc = "fill"
    /\ imgs = <<>>
    /\ i = 0
    /\ status = NoStatus
    /\ log = <<>>
    /\ ret = "running"
    /\ call \in [fn : {"readUntilEOF"}, len : {ReplyLen},
                 script : StrictScripts]
    /\ loc = [read |-> 0, first |-> TRUE, pos |-> 1, attempt |-> 0,
              empties |-> {}, eintr |-> 0, out |-> 0, left |-> 0,
              trail |-> -2]

\* The result of the next unix.Read that is not interrupted.
ScriptAt(script, pos) == IF pos <= Len(script) THEN script[pos] ELSE 0

\* Mutant of EmptyRead: every empty read is tolerated.
EmptyReadTolerated(isFirst) == "tolerate"

\* case n == 0 && first / case n == 0
EmptyRead(isFirst) == IF isFirst THEN "tolerate" ELSE "eof"

\* One turn of the first loop for a read that returned e.
FillTurn(e, read, isFirst, len) ==
    IF e < 0 THEN [pc |-> "done", ret |-> "read", read |-> read, out |-> 0,
                   left |-> 0]
    ELSE IF e = 0 /\ EmptyRead(isFirst) = "eof"
    THEN [pc |-> "done", ret |-> "unexpected EOF", read |-> read,
          out |-> read, left |-> 0]
    ELSE LET n == IF e < len - read THEN e ELSE len - read
         IN [pc |-> IF read + n = len THEN "trailing" ELSE "fill",
             ret |-> "running", read |-> read + n, out |-> 0,
             left |-> e - n]

\* Mutant of TrailingTurn: what the second loop reads is not looked at.
TrailingTurnAccepts(e, read) ==
    IF e < 0 THEN [pc |-> "done", ret |-> "read", read |-> read, out |-> 0,
                   left |-> 0]
    ELSE [pc |-> "done", ret |-> "nil", read |-> read, out |-> read,
          left |-> 0]

\* The second loop for a read that returned e.
TrailingTurn(e, read) ==
    IF e < 0 THEN [pc |-> "done", ret |-> "read", read |-> read, out |-> 0,
                   left |-> 0]
    ELSE IF e # 0
    THEN [pc |-> "done", ret |-> "trailing data", read |-> read,
          out |-> read, left |-> 0]
    ELSE [pc |-> "done", ret |-> "nil", read |-> read, out |-> read,
          left |-> 0]

\* What the next read of the second loop finds: the bytes that did not
\* fit in b, else the next entry of the script.
TrailingAt(script, pos, left) ==
    IF left > 0 THEN left ELSE ScriptAt(script, pos)

StrictJunk == <<imgs, i, status, log, call>>

\* unix.Read is interrupted: continue. In the first loop the post
\* statement first = false runs.
StrictEintr ==
    /\ pc \in {"fill", "trailing"}
    /\ loc.eintr < MaxEintr
    /\ loc' = [loc EXCEPT !.eintr = @ + 1,
                          !.first = IF pc = "fill" THEN FALSE ELSE @,
                          !.attempt = IF pc = "fill" THEN @ + 1 ELSE @]
    /\ UNCHANGED <<pc, ret>>
    /\ UNCHANGED StrictJunk

StrictFillRead ==
    /\ pc = "fill"
    /\ LET e == ScriptAt(call.script, loc.pos)
           t == FillTurn(e, loc.read, loc.first, call.len)
       IN /\ pc' = t.pc
          /\ ret' = t.ret
          /\ loc' = [loc EXCEPT
                        !.read = t.read, !.out = t.out, !.first = FALSE,
                        !.left = t.left,
                        !.pos = @ + 1, !.attempt = @ + 1,
                        !.empties = IF e = 0 THEN @ \cup {loc.attempt + 1}
                                    ELSE @]
    /\ UNCHANGED StrictJunk

StrictTrailingRead ==
    /\ pc = "trailing"
    /\ LET e == TrailingAt(call.script, loc.pos, loc.left)
           t == TrailingTurn(e, loc.read)
       IN /\ pc' = t.pc
          /\ ret' = t.ret
          /\ loc' = [loc EXCEPT !.out = t.out, !.trail = e,
                                !.pos = IF loc.left > 0 THEN @ ELSE @ + 1]
    /\ UNCHANGED StrictJunk

StrictNext ==
    \/ StrictEintr
    \/ StrictFillRead
    \/ StrictTrailingRead

StrictSpec == StrictInit /\ [][StrictNext]_vars

\* The run of readUntilEOF on a script when no call is interrupted.
RECURSIVE Uninterrupted(_, _, _, _, _)
Uninterrupted(script, len, pos, read, isFirst) ==
    LET t == IF read # len
             THEN FillTurn(ScriptAt(script, pos), read, isFirst, len)
             ELSE TrailingTurn(ScriptAt(script, pos), read)
    IN IF t.pc = "done" THEN <<t.ret, t.out>>
       ELSE IF t.left > 0
       THEN Uninterrupted([script EXCEPT ![pos] = t.left], len, pos, t.read,
                          FALSE)
       ELSE Uninterrupted(script, len, pos + 1, t.read, FALSE)

\* C22: an interrupted poll, read or write is retried and changes
\* nothing: with the same device behaviour the call ends with the same
\* bytes and the same result as without interruption; the tolerance for
\* one leading empty read is not used up by an interruption.
C22_Original ==
    (pc = "done" /\ call.fn = "readUntilEOF") =>
        <<ret, loc.out>> = Uninterrupted(call.script, call.len, 1, 0, TRUE)

\* C30: while the buffer is filled, an empty read is tolerated only as
\* the very first attempt, and then reading goes on; an empty read at a
\* later attempt ends the call with unexpected EOF.
C30_StrictEmpty ==
    /\ (\E a \in loc.empties : a > 1) =>
          (pc = "done" /\ ret = "unexpected EOF")
    /\ ret = "unexpected EOF" =>
          (\E a \in loc.empties : a > 1 /\ a = loc.attempt)
    /\ (loc.empties = {1} /\ loc.attempt = 1) =>
          (pc = "fill" /\ ret = "running" /\ loc.read = 0)
    /\ Cardinality(loc.empties) <= 2

C30_Witness ==
    /\ pc = "done"
    /\ ret = "unexpected EOF"
    /\ loc.empties = {1, 3}
    /\ loc.read = 16
    /\ loc.eintr = 0

\* C24: in a job of n >= 1 pages exactly one page, page 0, has the first
\* flag and exactly one, page n - 1, has the last flag; the page of a
\* job of one page has both, any other page has none; the flags are two
\* different bits.
C24_PagePos ==
    (pc \in {"preWait", "rasterMode", "info", "mode", "advanced", "margin",
             "compression", "raster", "print", "printing", "feeding",
             "completed"}) =>
        LET n == Len(imgs)
            IsFirst(p) == (p \div 2) % 2 = 1
            IsLast(p) == (p \div 4) % 2 = 1
        IN /\ n >= 1 /\ i \in 0..(n - 1)
           /\ CurPos \in {0, 2, 4, 6}
           /\ IsFirst(CurPos) = (i = 0)
           /\ IsLast(CurPos) = (i = n - 1)
           /\ n = 1 => CurPos = 6
           /\ (i # 0 /\ i # n - 1) => CurPos = 0
           /\ Cardinality({k \in 0..(n - 1) : IsFirst(Pos(k, n))}) = 1
           /\ Cardinality({k \in 0..(n - 1) : IsLast(Pos(k, n))}) = 1

C24_Witness ==
    /\ pc = "raster"
    /\ Len(imgs) = 3
    /\ i = 1
    /\ CurPos = 0

\* C25: a byte the driver does not know is kept as it is: the decoded
\* status holds the raw width, type and kind bytes, the text of an
\* unknown width, type or kind contains the number, and the text of an
\* error byte names every bit that is set or has it in the mask of its
\* Unknown entry.
DigitValue(c) == CHOOSE d \in 0..15 : HexChars[d + 1] = c

ParseNumber(digits, base) ==
    CASE Len(digits) = 1 -> DigitValue(digits[1])
      [] Len(digits) = 2 -> DigitValue(digits[1]) * base + DigitValue(digits[2])
      [] OTHER -> DigitValue(digits[1]) * base * base
                      + DigitValue(digits[2]) * base + DigitValue(digits[3])

\* The number inside the entry of text that opens with the piece open, or
\* -1 when there is no such entry.
NumberAfter(text, open, base) ==
    IF \E k \in 1..Len(text) : text[k] = open
    THEN LET k == CHOOSE k \in 1..Len(text) : text[k] = open
         IN IF text[Len(text)] = ")" /\ Len(text) - k \in 2..4
            THEN ParseNumber(SubSeq(text, k + 1, Len(text) - 1), base)
            ELSE -1
    ELSE -1

BitNamed(text, names, k) ==
    \E e \in names : e[1] = 2 ^ k /\ (\E q \in 1..Len(text) : text[q] = e[2])

BitsReported(text, names, v) ==
    \A k \in 0..7 :
        ((v \div (2 ^ k)) % 2 = 1) =>
            \/ BitNamed(text, names, k)
            \/ LET m == NumberAfter(text, "Unknown(0x", 16)
               IN m >= 0 /\ (m \div (2 ^ k)) % 2 = 1

PageCmdLen(d, n) ==
    CASE d = 0 -> 4 [] d = 1 -> 13 [] d = 2 -> 4 [] d = 3 -> 4 [] d = 4 -> 5
      [] d = 5 -> 2 [] d = 6 + n -> 1 [] OTHER -> 19

PageCmdHead(d, n) ==
    CASE d = 0 -> <<27, 105, 97, 1>>
      [] d = 1 -> <<27, 105, 122>>
      [] d = 2 -> <<27, 105, 77, 64>>
      [] d = 3 -> <<27, 105, 75>>
      [] d = 4 -> <<27, 105, 100, 0, 0>>
      [] d = 5 -> <<77, 0>>
      [] d = 6 + n -> <<>>
      [] OTHER -> <<71, 16, 0>>

\* C26: the commands of a page are written in the order raster mode,
\* print information, mode settings, advanced mode settings, margin,
\* compression, every raster line, print command, with nothing in
\* between; the print command comes after the last raster line.
C26_PageOrder ==
    /\ \A q \in PageStarts :
          log[q].ok =>
             LET n == ImgDy(imgs[CountBefore(IsPageStart, q) + 1])
             IN \A d \in 0..(n + 6) :
                   q + d <= Len(log) =>
                      LET e == log[q + d]
                          h == PageCmdHead(d, n)
                      IN /\ e.op = "w"
                         /\ e.ok =>
                               /\ Len(e.b) = PageCmdLen(d, n)
                               /\ SubSeq(e.b, 1, Len(h)) = h
                               /\ d = 6 + n => e.b[1] \in {12, 26}
    /\ \A p \in PrintCmds :
          /\ p > 1
          /\ log[p - 1].ok
          /\ Len(log[p - 1].b) = 19
          /\ SubSeq(log[p - 1].b, 1, 3) = <<71, 16, 0>>
          /\ \E q \in PageStarts :
                q = p - 6 - ImgDy(imgs[CountBefore(IsPageStart, q) + 1])

C26_Witness ==
    /\ Succeeded
    /\ Len(imgs) = 2
    /\ Cardinality(PrintCmds) = 2
    /\ Cardinality(PageStarts) = 2

\* C27: the 32-bit little-endian count of the print information command
\* of a page is the number of raster line commands written between it
\* and the print command of the page, and each of them is 19 bytes:
\* 47 10 00 and 16 bytes.
C27_LineCount ==
    \A p \in PrintCmds :
        LET starts == {q \in PageStarts : q < p}
            q == CHOOSE q \in starts : \A r \in starts : r <= q
            info == log[q + 1].b
            between == SubSeq(log, q + 2, p - 1)
            IsLine(e) == Len(e.b) > 0 /\ e.b[1] = 71
            lines == SelectSeq(between, IsLine)
        IN /\ starts # {}
           /\ SubSeq(info, 1, 3) = <<27, 105, 122>>
           /\ Len(info) = 13
           /\ info[8] = Len(lines) % 256
           /\ info[9] = (Len(lines) \div 256) % 256
           /\ info[10] = (Len(lines) \div 65536) % 256
           /\ info[11] = 0
           /\ \A k \in 1..Len(lines) :
                 /\ Len(lines[k].b) = 19
                 /\ SubSeq(lines[k].b, 1, 3) = <<71, 16, 0>>
                 /\ lines[k].ok

C27_Witness ==
    /\ Succeeded
    /\ Len(imgs) = 1
    /\ ImgDy(imgs[1]) = 172
    /\ Len(SelectSeq(log, IsRasterLine)) = 172
    /\ SubSeq(log[FirstPageCmd + 1].b, 8, 11) = <<172, 0, 0, 0>>

(***************************************************************************)
(* C28: the phase-change status accepted right after a page's print        *)
(* command signals the printing phase; a phase-change reply whose phase    *)
(* field is editing, or an unknown value, is not accepted there.           *)
(***************************************************************************)
C28_Original == loc.phase \in {-1, PhasePrinting}

C31_Assembled ==
    (call.fn = "read" /\ ret \in {"running", "nil", "deadline exceeded"}) =>
        /\ \A k \in 1..32 :
              loc.buf[k] = IF k <= loc.taken THEN k ELSE 0
        /\ pc = "loop" => loc.read = loc.taken
        /\ pc = "readFull" => loc.read + loc.n = loc.taken
        /\ (pc = "done" /\ ret = "nil") => loc.taken = 32

C31_Witness ==
    /\ pc = "done"
    /\ ret = "nil"
    /\ loc.spurious
    /\ loc.bursts = 3
    /\ \A k \in 1..32 : loc.buf[k] = k

(***************************************************************************)
(* C32: in the strict readUntilEOF, once the requested bytes are read a    *)
(* further read must return nothing: when it returns bytes the call fails  *)
(* with the trailing data error, so success is returned only after an      *)
(* empty read that follows a full buffer, never for a longer reply.        *)
(***************************************************************************)
C32_Trailing ==
    call.fn = "readUntilEOF" =>
        /\ loc.trail > 0 =>
              (pc = "done" /\ ret = "trailing data" /\ loc.out = loc.read)
        /\ ret = "trailing data" => (loc.trail > 0 /\ loc.read = 32)
        /\ ret = "nil" => (loc.read = 32 /\ loc.trail = 0 /\ loc.left = 0)
        /\ (pc = "trailing" /\ loc.left > 0) => loc.read = 32

C32_Witness ==
    /\ pc = "done"
    /\ ret = "trailing data"
    /\ call.script = <<16, 32>>
    /\ loc.left = 16
    /\ loc.trail = 16
    /\ loc.read = 32

(***************************************************************************)
(* C33: when poll reports an error or hang-up condition the read fails     *)
(* with the disconnect error without reading, also when data is reported   *)
(* ready in the same event; when it reports an event with neither error,   *)
(* hang-up nor data ready the read fails with the protocol error.          *)
(***************************************************************************)
C33_Original ==
    (call.fn = "read" /\ loc.revents # {"none"}) =>
        /\ (loc.revents \cap {"POLLERR", "POLLHUP"} # {}) =>
              (/\ pc = "done" /\ ret = "printer disconnected"
               /\ loc.n = 0 /\ loc.taken = loc.read)
        /\ (loc.revents \cap {"POLLERR", "POLLHUP", "POLLIN"} = {}) =>
              (pc = "done" /\ ret = "no data")

\* C33 amended: the invalid descriptor condition comes first and has an
\* error of its own; the rest holds for events without it.
C33_Amended ==
    (call.fn = "read" /\ loc.revents # {"none"}) =>
        /\ "POLLNVAL" \in loc.revents =>
              (/\ pc = "done" /\ ret = "POLLNVAL"
               /\ loc.n = 0 /\ loc.taken = loc.read)
        /\ ("POLLNVAL" \notin loc.revents
              /\ loc.revents \cap {"POLLERR", "POLLHUP"} # {}) =>
              (/\ pc = "done" /\ ret = "printer disconnected"
               /\ loc.n = 0 /\ loc.taken = loc.read)
        /\ (loc.revents \cap {"POLLNVAL", "POLLERR", "POLLHUP", "POLLIN"}
                = {}) =>
              (/\ pc = "done" /\ ret = "no data"
               /\ loc.n = 0 /\ loc.taken = loc.read)

C33_Witness ==
    /\ pc = "done"
    /\ ret = "printer disconnected"
    /\ loc.revents = {"POLLHUP", "POLLIN"}
    /\ loc.read = 8
    /\ loc.taken = 8

(***************************************************************************)
(* C34: read returns nil only when exactly len(buf) = 32 bytes have been   *)
(* stored; whatever the partial reads, empty reads and interruptions, the  *)
(* count of bytes read never exceeds 32, and readStatus decodes a status   *)
(* only from a buffer that is full.                                        *)
(***************************************************************************)
C34_Exact ==
    call.fn = "read" =>
        /\ loc.read <= 32 /\ loc.read + loc.n <= 32 /\ loc.taken <= 32
        /\ ret = "nil" =>
              (loc.read = 32 /\ loc.taken = 32
                  /\ \A k \in 1..32 : loc.buf[k] # 0)
        /\ status # NoStatus =>
              /\ pc = "done" /\ ret = "nil"
              /\ \A k \in 1..32 : loc.buf[k] # 0
              /\ status = [Err1 |-> loc.buf[9], Err2 |-> loc.buf[10],
                           MediaWidth |-> loc.buf[11],
                           MediaType |-> loc.buf[12],
                           Type |-> loc.buf[19], Phase |-> loc.buf[20]]

C34_Witness ==
    /\ pc = "done"
    /\ status # NoStatus
    /\ status.Type = 19
    /\ loc.bursts = 2
    /\ loc.spurious
    /\ loc.eintr = 1

IsRead(e) == e.op = "r"

C36_Safety ==
    /\ ret = "device error" =>
          (/\ Len(SelectSeq(log, IsRead)) = 1
           /\ log[Len(log)] = R(StatusReplyToRequest, StatusReplyToRequest,
                                TRUE)
           /\ (status.Err1 # 0 \/ status.Err2 # 0)
           /\ ~loc.err)
    /\ loc.err => (/\ ret # "device error"
                   /\ status.Err1 = 0 /\ status.Err2 = 0
                   /\ Len(SelectSeq(log, IsRead)) > 1)

C36_WaitStep ==
    (/\ Len(log') = Len(log) + 1
     /\ log'[Len(log')].op = "r"
     /\ log'[Len(log')].want # StatusReplyToRequest
     /\ log'[Len(log')].got = log'[Len(log')].want)
        => (/\ log'[Len(log')].ok
            /\ ret' \in {"running", "nil"}
            /\ ret' = "nil" => log'[Len(log')].want = StatusPrintingCompleted)

C36_WaitErrors == []C36_Safety /\ [][C36_WaitStep]_vars

C36_Witness ==
    /\ pc = "done"
    /\ ret = "nil"
    /\ loc.err
    /\ Len(imgs) = 2

(***************************************************************************)
(* C37: Print with an empty list of pages is not rejected: after the       *)
(* invalidate, the initialize and a first status that is read and has no   *)
(* error bit it returns nil, having written no page command and no print   *)
(* command and having waited for no completion status.                     *)
(***************************************************************************)
EmptyJobQuiet ==
    /\ i = 0
    /\ Len(log) <= 4
    /\ \A k \in 1..Len(log) :
          /\ log[k].op = "r" => log[k].want = StatusReplyToRequest
          /\ (log[k].op = "w" /\ log[k].ok) =>
                log[k].b \in {[j \in 1..100 |-> 0], <<27, 64>>, <<27, 105, 83>>}

EmptyJobDone ==
    /\ pc = "done"
    /\ ret = "nil"
    /\ log = <<W([j \in 1..100 |-> 0], TRUE), W(<<27, 64>>, TRUE),
               W(<<27, 105, 83>>, TRUE),
               R(StatusReplyToRequest, StatusReplyToRequest, TRUE)>>

C37_Original ==
    (pc # "idle" /\ imgs = <<>>) =>
        /\ EmptyJobQuiet
        /\ (StatusSeen /\ status.Err1 = 0 /\ status.Err2 = 0) => EmptyJobDone
        /\ ret = "nil" => EmptyJobDone

\* C37 amended: the first status must also report a tape width of the
\* table; with another width the empty job fails like any other.
C37_Amended ==
    (pc # "idle" /\ imgs = <<>>) =>
        /\ EmptyJobQuiet
        /\ (StatusSeen /\ status.Err1 = 0 /\ status.Err2 = 0) =>
              IF status.MediaWidth \in {4, 6, 9, 12, 18, 24}
              THEN EmptyJobDone
              ELSE pc = "done" /\ ret = "unknown tape width"
        /\ ret = "nil" => EmptyJobDone

C37_Witness ==
    /\ imgs = <<>>
    /\ pc = "done"
    /\ ret = "nil"
    /\ Len(log) = 4
    /\ status.MediaWidth = Width6

(***************************************************************************)
(* C38: for a source no wider than Bounds.Dx, pad returns an image exactly *)
(* Dx wide and max(source height, MinDy) high, which passes the page       *)
(* validation of the job; when the padding in a direction is odd the extra *)
(* pixel is on the top or left side; a source wider than Dx is an error.   *)
(***************************************************************************)
C38_Pad ==
    (pc = "done" /\ call.fn = "pad") =>
        LET src == call.img
            dst == loc.dst
            Dx == IF call.w = Width3_5 THEN 24 ELSE 32
            sw == src.MaxX - src.MinX
            sh == src.MaxY - src.MinY
            left == src.MinX - dst.MinX
            right == dst.MaxX - src.MaxX
            top == src.MinY - dst.MinY
            bottom == dst.MaxY - src.MaxY
        IN IF sw > Dx THEN ret = "image too wide"
           ELSE /\ ret = "nil"
                /\ dst.MaxX - dst.MinX = Dx
                /\ dst.MaxY - dst.MinY = (IF sh > 172 THEN sh ELSE 172)
                /\ checkImgs(call.w, <<dst>>) = "nil"
                /\ left >= 0 /\ right >= 0 /\ top >= 0 /\ bottom >= 0
                /\ left - right = (Dx - sw) % 2
                /\ top - bottom = (IF sh >= 172 THEN 0 ELSE (172 - sh) % 2)

C38_Witness ==
    /\ pc = "done"
    /\ call.fn = "pad"
    /\ ret = "nil"
    /\ call.w = Width3_5
    /\ call.img.MaxX - call.img.MinX = 23
    /\ call.img.MaxY - call.img.MinY = 169
    /\ call.img.MinX = -3
    /\ loc.dst.MinX = -4
    /\ loc.dst.MaxX = 20
    /\ loc.dst.MinY = call.img.MinY - 2
    /\ loc.dst.MaxY = call.img.MaxY + 1
====
